---- MODULE Spec2Model ----
(***************************************************************************)
(* Model of the OceanOptics spectrometer driver (OceanOptics/_devices.py): *)
(* the USB2000 (single-byte-opcode, "legacy") class and the STS (64-byte   *)
(* frame, "framed") class.  The USB transport is the environment: every    *)
(* write / read either raises usb.core.USBError or succeeds, and the bytes *)
(* a read returns are what the device put on the endpoint.                 *)
(*                                                                         *)
(* Private methods (_query_status, _request_spectrum, ...) are operators   *)
(* taking the transport outcome `o` of the call and returning              *)
(*   [exc |-> name of the exception raised or "none",                      *)
(*    ev  |-> the transport calls made, in order,                          *)
(*    ... the value returned]                                              *)
(* __init__ is stepped by `pc`, one action per statement; each public      *)
(* method of a constructed object is one action.                           *)
(***************************************************************************)
EXTENDS Integers, Sequences, FiniteSets, TLC

VARIABLES
    variant,        \* "USB2000" or "STS": the class being constructed
    flt,            \* the entry the attached STS device lacks (NoFault: none)
    pc,             \* the statement of __init__ to run next, "ready", "failed"
    i,              \* loop index of the running `for i in range(10)` loop
    exc,            \* the exception __init__ raised ("none" while it runs)
    attrs,          \* names of the instance attributes assigned so far
    usbcomm,        \* self._usbcomm
    it,             \* self._it
    scan_averages,  \* self._scan_averages
    wl,             \* self._wl
    nl,             \* self._nl
    st,             \* self._st  (USB2000): <<65535, saturation raw value>>
    sl,             \* self._sl  (STS)
    Serial,         \* self.Serial
    written,        \* kinds of transport calls made so far
    sent,           \* calls of the running statement or method, counted by kind
    last,           \* the last call: its transport calls, outcome and return value
    ops             \* number of public method calls made on the object

vars == <<variant, flt, pc, i, exc, attrs, usbcomm, it, scan_averages, wl, nl, st,
          sl, Serial, written, sent, last, ops>>

----------------------------------------------------------------------------
(* Bounds of the model *)

\* public method calls made on a constructed object
MaxOps == 2
\* reads of the STS buffer-drain loop that return data and are counted
MaxDrain == 2

\* integration times a caller passes and the device reports (microseconds)
ItValues == {1000, 250000}
\* usb speed codes the device may report in its status record
SpeedCodes == {0, 128, 1}
\* the value the device holds for the nonlinearity count / order
NlCounts == {5, 7, 8}
\* spectra the detector may deliver (seed of the sample pattern)
Patterns == {0, 40000}
\* sync bytes the device may append to a spectrum
SyncBytes == {105, 0}
\* positions at which a chunk read of a spectrum may fail
FailChunks(n) == {1, 2, n}

----------------------------------------------------------------------------
(* Program constants *)

EP1_out == 1
EP1_in == 129
EP2_in == 130
EP1_in_size == 64
\* for i in range(10): the attempts of the speed-detection loop
USB2000_speed_attempts_off == 10 + 1
USB2000_speed_attempts == 10
\* for i in range(10): the attempts of the first-acquisition loops
USB2000_spectrum_attempts_off == 10 + 1
USB2000_spectrum_attempts == 10
STS_spectrum_attempts == 10
HIGHSPEED == 128
\* (a variant with the nibbles of the sync byte swapped: 0x96)
SYNC_swapped == 9 * 16 + 6
SYNC == 105

----------------------------------------------------------------------------
(* struct.pack / struct.unpack, little-endian *)

pack_B(v) == <<v % 256>>
pack_H(v) == <<v % 256, (v \div 256) % 256>>
\* a 32-bit unsigned field ('I', 'L') is handled by its 16-bit halves, so
\* that every value below 2^32 has a representation: hi * 65536 + lo
\* (a variant that lays the field out big-endian)
pack_I2_be(hi, lo) == <<hi \div 256, hi % 256, lo \div 256, lo % 256>>
pack_I2(hi, lo) == pack_H(lo) \o pack_H(hi)
pack_I(v) == pack_I2(v \div 65536, v % 65536)

\* offsets are 0-based like Python's; b is a 1-based TLA+ sequence
unpack_B(b, off) == b[off + 1]
unpack_H(b, off) == b[off + 1] + 256 * b[off + 2]
\* (a variant that reads the two bytes as unsigned)
unpack_h_unsigned(b, off) == b[off + 1] + 256 * b[off + 2]
unpack_h(b, off) ==
    LET u == unpack_H(b, off) IN IF u >= 32768 THEN u - 65536 ELSE u
unpack_L2(b, off) == <<unpack_H(b, off + 2), unpack_H(b, off)>>
WordValue(p) == 65536 * p[1] + p[2]
unpack_L(b, off) == WordValue(unpack_L2(b, off))

Zeros(n) == [k \in 1..n |-> 0]

\* transport calls as they are recorded in last.ev
Wr(ep, data) == [k |-> "write", ep |-> ep, n |-> Len(data), data |-> data]
Rd(ep, size) == [k |-> "read", ep |-> ep, n |-> size, data |-> <<>>]
Sleep(us) == [k |-> "sleep", ep |-> 0, n |-> us, data |-> <<>>]

----------------------------------------------------------------------------
(* The USB2000 device (environment): what it puts on its in-endpoints *)

DevPixels == 2048
DevSaturation == 125 * 256
DevSerialText == <<85, 83, 66, 50>>
DevWlCoef == <<340, 2, 1, 1>>
DevNlCoef == <<11, 12, 13, 14, 15, 16, 17, 18>>

\* the decimal text of a number n >= 0, as the EEPROM stores it
RECURSIVE DecimalText(_)
DecimalText(n) ==
    IF n < 10 THEN <<48 + n>> ELSE DecimalText(n \div 10) \o <<48 + (n % 10)>>

\* the 16-byte status record of opcode 0FEh
\* field: the four bytes the device stored from the last 0x02 command
DevStatusRecordOf(field, speed) ==
    pack_H(DevPixels) \o field \o Zeros(6) \o Zeros(2) \o <<speed>> \o <<0>>
DevStatusRecord(itv, speed) == DevStatusRecordOf(pack_I(itv), speed)

\* EEPROM slot `addr` as text; slot 14 holds the nonlinearity polynomial order
DevSlotText(addr, order) ==
    CASE addr = 0 -> DevSerialText
      [] addr \in 1..4 -> DecimalText(DevWlCoef[addr])
      [] addr \in 6..13 -> DecimalText(DevNlCoef[addr - 5])
      [] addr = 14 -> DecimalText(order)
      [] OTHER -> <<>>

\* the answer to opcode 05h for slot addr; slot 17 is a raw configuration
\* record that carries the saturation level at bytes 6..7
DevInfoRecord(addr, order) ==
    IF addr = 17
    THEN <<5, 17>> \o Zeros(4) \o pack_H(DevSaturation) \o Zeros(10)
    ELSE <<5, addr>> \o DevSlotText(addr, order) \o <<0>>

\* sample k (0-based) of the detector, as an unsigned 16-bit word
DevSample(pat, k) == (pat + 31 * k) % 65536

\* byte j (1-based) of the 4096 bytes of one spectrum
DevSpectrumByte(pat, j) ==
    IF (j - 1) % 2 = 0 THEN DevSample(pat, (j - 1) \div 2) % 256
    ELSE DevSample(pat, (j - 1) \div 2) \div 256

(* Transport outcomes of one exchange: w / r tell whether the write / the  *)
(* read succeeded (FALSE: usb.core.USBError), resp is what the read gave.  *)
WriteFails == [w |-> FALSE, r |-> FALSE, resp |-> <<>>]
ReadFails == [w |-> TRUE, r |-> FALSE, resp |-> <<>>]
Answer(resp) == [w |-> TRUE, r |-> TRUE, resp |-> resp]

\* ADC counts the temperature sensor may report
AdcValues == {256, -1, 32767, -32768}

TemperatureOutcomes ==
    {WriteFails, ReadFails}
    \cup {Answer(<<8>> \o pack_H(adc)) : adc \in AdcValues}
    \cup {Answer(<<0>> \o pack_H(256)), Answer(<<8>> \o pack_H(256) \o <<0>>)}

StatusOutcomes ==
    {WriteFails, ReadFails}
    \cup {Answer(DevStatusRecord(t, s)) : t \in ItValues, s \in SpeedCodes}
    \cup {Answer(SubSeq(DevStatusRecord(1000, 0), 1, 15))}

InfoFaults == {"ok", "wfail", "rfail", "badecho"}

InfoOutcome(addr, order, kind) ==
    CASE kind = "wfail" -> WriteFails
      [] kind = "rfail" -> ReadFails
      [] kind = "badecho" -> Answer(<<0>> \o Tail(DevInfoRecord(addr, order)))
      [] OTHER -> Answer(DevInfoRecord(addr, order))

\* outcomes of a run of queries of the slots addrs: at most one goes wrong
InfoOutcomeSeqs(addrs, order) ==
    {[j \in 1..Len(addrs) |->
        InfoOutcome(addrs[j], order, IF j = f THEN kind ELSE "ok")] :
        f \in 1..Len(addrs), kind \in InfoFaults}

\* outcome of a spectrum request: the write, the chunk read that fails
\* (0: none, n+1: the sync read), a short last chunk, the data and sync byte
SpectrumOutcomes(n) ==
    {[w |-> FALSE, failAt |-> 0, short |-> FALSE, pat |-> 0, sync |-> SYNC]}
    \cup {[w |-> TRUE, failAt |-> c, short |-> FALSE, pat |-> 0, sync |-> SYNC] :
            c \in FailChunks(n) \cup {n + 1}}
    \cup {[w |-> TRUE, failAt |-> 0, short |-> TRUE, pat |-> 0, sync |-> SYNC]}
    \cup {[w |-> TRUE, failAt |-> 0, short |-> FALSE, pat |-> p, sync |-> y] :
            p \in Patterns, y \in SyncBytes}

----------------------------------------------------------------------------
(* class USB2000: private methods *)

Ok(ev, ret) == [exc |-> "none", ev |-> ev, ret |-> ret]
Raise(e, ev) == [exc |-> e, ev |-> ev, ret |-> <<>>]

IsDigits(b) == b # <<>> /\ \A k \in 1..Len(b) : b[k] \in 48..57

\* float(text) / int(text) of a run of decimal digits
RECURSIVE ParseNumber(_)
ParseNumber(b) ==
    IF b = <<>> THEN 0
    ELSE 10 * ParseNumber(SubSeq(b, 1, Len(b) - 1)) + (b[Len(b)] - 48)

\* _initialize: 0x01 initialize
USB2000_initialize(o) ==
    IF ~o.w THEN Raise("USBError", <<Wr(EP1_out, pack_B(1))>>)
    ELSE Ok(<<Wr(EP1_out, pack_B(1))>>, <<>>)

\* the bytes of struct.pack('<BI', 0x02, int(time_us))
USB2000_time_command(hi, lo) == pack_B(2) \o pack_I2(hi, lo)

\* _set_integration_time: 0x02 set integration time
USB2000_set_integration_time(time_us, o) ==
    LET cmd == USB2000_time_command(time_us \div 65536, time_us % 65536)
    IN  IF ~o.w THEN Raise("USBError", <<Wr(EP1_out, cmd)>>)
        ELSE Ok(<<Wr(EP1_out, cmd)>>, <<>>)

\* _query_information: 0x05 query info
query_information(address, raw, o) ==
    LET a == address % 255
        ev1 == <<Wr(EP1_out, pack_B(5) \o pack_B(a))>>
        ev2 == ev1 \o <<Rd(EP1_in, EP1_in_size)>>
        ret == o.resp
        zeros == {k \in 3..Len(ret) : ret[k] = 0}
        first == CHOOSE k \in zeros : \A m \in zeros : k <= m
    IN  IF ~o.w THEN Raise("USBError", ev1)
        ELSE IF ~o.r THEN Raise("USBError", ev2)
        ELSE IF raw THEN Ok(ev2, ret)
        ELSE IF Len(ret) < 2 THEN Raise("IndexError", ev2)
        ELSE IF ret[1] # 5 \/ ret[2] # a THEN Raise("Exception", ev2)
        ELSE IF zeros = {} THEN Raise("ValueError", ev2)
        ELSE Ok(ev2, SubSeq(ret, 3, first - 1))

\* _query_status: 0xFE query status; ret is the dict, as a record
\* the 'L' field of '<HLBBBBBBBBBB', as its two halves
USB2000_status_time(ret) == unpack_L2(ret, 2)

query_status(o) ==
    LET ev1 == <<Wr(EP1_out, pack_B(254))>>
        ev2 == ev1 \o <<Rd(EP1_in, EP1_in_size)>>
        ret == o.resp
    IN  IF ~o.w THEN Raise("USBError", ev1)
        ELSE IF ~o.r THEN Raise("USBError", ev2)
        ELSE IF Len(ret) # 16 THEN Raise("struct.error", ev2)
        ELSE Ok(ev2, [pixels |-> unpack_H(ret, 0),
                      integration_time |-> WordValue(USB2000_status_time(ret)),
                      lamp_enable |-> unpack_B(ret, 6),
                      trigger_mode |-> unpack_B(ret, 7),
                      acquisition_status |-> unpack_B(ret, 8),
                      packets_in_spectrum |-> unpack_B(ret, 9),
                      power_down |-> unpack_B(ret, 10),
                      packets_in_endpoint |-> unpack_B(ret, 11),
                      usb_speed |-> unpack_B(ret, 14)])

\* (a variant that puts each later chunk in front of the earlier ones)
RECURSIVE Join_reversed(_, _)
Join_reversed(acc, chunks) ==
    IF chunks = <<>> THEN acc
    ELSE Join_reversed(Head(chunks) \o acc, Tail(chunks))

\* sum(ret[1:], ret[0]): the chunks joined, ret[0] first
RECURSIVE Join(_, _)
Join(acc, chunks) ==
    IF chunks = <<>> THEN acc ELSE Join(acc \o Head(chunks), Tail(chunks))

Max(a, b) == IF a >= b THEN a ELSE b

\* (a variant that reads 512-byte chunks at every speed)
USB2000_chunks_fast(speed) == [n |-> 8, size |-> 512]

\* number and size of the reads of one spectrum, by the cached speed code
USB2000_chunks(speed) ==
    IF speed = HIGHSPEED THEN [n |-> 8, size |-> 512] ELSE [n |-> 64, size |-> 64]

\* struct.unpack('<' + 'h'*2048, ret)
unpack_spectrum(ret) == [k \in 1..DevPixels |-> unpack_h(ret, 2 * (k - 1))]

\* ret = [self._dev.read(self._EP2_in, size) for _ in range(n)]
\* ret = sum(ret[1:], ret[0])
\* for the spectrum pat, its last chunk two bytes short if `short`
USB2000_read_spectrum(speed, pat, short) ==
    LET c == USB2000_chunks(speed)
        \* what the device puts in chunk j
        chunk(j) ==
            [b \in 1..(IF short /\ j = c.n THEN c.size - 2 ELSE c.size) |->
                DevSpectrumByte(pat, (j - 1) * c.size + b)]
    IN  Join(chunk(1), [j \in 1..(c.n - 1) |-> chunk(j + 1)])

(* The two steps above and the decoding depend on the speed code and the   *)
(* device's data alone: they are tabulated over the finite inputs, so that *)
(* each is evaluated once.                                                 *)
USB2000_joined ==
    [s \in SpeedCodes, p \in Patterns, h \in BOOLEAN |->
        USB2000_read_spectrum(s, p, h)]
USB2000_unpacked ==
    [s \in SpeedCodes, p \in Patterns, h \in BOOLEAN |->
        IF Len(USB2000_joined[s, p, h]) # 2 * DevPixels THEN <<>>
        ELSE unpack_spectrum(USB2000_joined[s, p, h])]

\* _request_spectrum: 0x09 request spectra
USB2000_request_spectrum(self_it, self_usbcomm, o) ==
    LET c == USB2000_chunks(self_usbcomm)
        nread == IF o.failAt \in 1..c.n THEN o.failAt ELSE c.n
        ev1 == <<Wr(EP1_out, pack_B(9))>>
        ev2 == ev1 \o <<Sleep(Max(self_it - 100000, 0))>>
        ev3 == ev2 \o [j \in 1..nread |-> Rd(EP2_in, c.size)]
        ev4 == ev3 \o <<Rd(EP2_in, 1)>>
        ret == USB2000_joined[self_usbcomm, o.pat, o.short]
    IN  IF ~o.w THEN Raise("USBError", ev1)
        ELSE IF o.failAt \in 1..c.n THEN Raise("USBError", ev3)
        ELSE IF Len(ret) # 2 * DevPixels THEN Raise("struct.error", ev3)
        ELSE IF o.failAt = c.n + 1 THEN Raise("USBError", ev4)
        ELSE IF o.sync # SYNC
             THEN Raise("OOError(request_spectrum: Wrong answer)", ev4)
        ELSE Ok(ev4, USB2000_unpacked[self_usbcomm, o.pat, o.short])

\* [float(self._query_information(i)) for i in addrs]
RECURSIVE ReadFloats(_, _)
ReadFloats(addrs, os) ==
    IF addrs = <<>> THEN Ok(<<>>, <<>>)
    ELSE LET q == query_information(Head(addrs), FALSE, Head(os))
             rest == ReadFloats(Tail(addrs), Tail(os))
         IN  IF q.exc # "none" THEN q
             ELSE IF ~IsDigits(q.ret) THEN Raise("ValueError", q.ev)
             ELSE IF rest.exc # "none" THEN Raise(rest.exc, q.ev \o rest.ev)
             ELSE Ok(q.ev \o rest.ev, <<ParseNumber(q.ret)>> \o rest.ret)

\* _get_serial
USB2000_get_serial(o) == query_information(0, FALSE, o)

\* _get_wavelength_calibration
USB2000_get_wavelength_calibration(os) == ReadFloats(<<1, 2, 3, 4>>, os)

\* the value of slot 14 the driver accepts
USB2000_nl_accepted == 7
\* (a variant that reads as many slots as the accepted order: range(6, 13))
USB2000_nl_slots_order == <<6, 7, 8, 9, 10, 11, 12>>
\* the slots the nonlinearity coefficients are read from: range(6, 14)
USB2000_nl_slots == <<6, 7, 8, 9, 10, 11, 12, 13>>

\* _get_nonlinearity_calibration
USB2000_get_nonlinearity_calibration(os) ==
    LET q == query_information(14, FALSE, Head(os))
        rest == ReadFloats(USB2000_nl_slots, Tail(os))
    IN  IF q.exc # "none" THEN q
        ELSE IF ~IsDigits(q.ret) THEN Raise("ValueError", q.ev)
        ELSE IF ParseNumber(q.ret) # USB2000_nl_accepted
             THEN Raise("OOError(This spectrometer has less correction factors)", q.ev)
        ELSE IF rest.exc # "none" THEN Raise(rest.exc, q.ev \o rest.ev)
        ELSE Ok(q.ev \o rest.ev, rest.ret)

\* _get_saturation_calibration: 65535.0 / float(raw), kept as the pair
USB2000_get_saturation_calibration(o) ==
    LET q == query_information(17, TRUE, o)
    IN  IF q.exc # "none" THEN q
        ELSE IF Len(q.ret) < 8 THEN Raise("struct.error", q.ev)
        ELSE IF unpack_h(q.ret, 6) = 0 THEN Raise("ZeroDivisionError", q.ev)
        ELSE Ok(q.ev, <<65535, unpack_h(q.ret, 6)>>)

\* _read_pcb_temperature: 0x6C read pcb temperature; 0.003906 * adc is
\* returned in units of 10^-6
\* _read_register_information: 0x6B read register info
read_register_information(address, o) ==
    LET a == address % 255
        ev1 == <<Wr(EP1_out, pack_B(107) \o pack_B(a))>>
        ev2 == ev1 \o <<Rd(EP1_in, EP1_in_size)>>
        ret == o.resp
    IN  IF ~o.w THEN Raise("USBError", ev1)
        ELSE IF ~o.r THEN Raise("USBError", ev2)
        ELSE IF Len(ret) < 1 THEN Raise("IndexError", ev2)
        ELSE IF ret[1] # a THEN Raise("Exception", ev2)
        ELSE IF Len(ret) # 3 THEN Raise("struct.error", ev2)
        ELSE Ok(ev2, <<unpack_h(ret, 1)>>)

read_pcb_temperature(o) ==
    LET ev1 == <<Wr(EP1_out, pack_B(108))>>
        ev2 == ev1 \o <<Rd(EP1_in, EP1_in_size)>>
        ret == o.resp
    IN  IF ~o.w THEN Raise("USBError", ev1)
        ELSE IF ~o.r THEN Raise("USBError", ev2)
        ELSE IF Len(ret) < 1 THEN Raise("IndexError", ev2)
        ELSE IF ret[1] # 8 THEN Raise("Exception", ev2)
        ELSE IF Len(ret) # 3 THEN Raise("struct.error", ev2)
        ELSE Ok(ev2, <<3906 * unpack_h(ret, 1)>>)

----------------------------------------------------------------------------
(* class USB2000: public methods.  time_us is <<>> for None, <<t>> else.   *)

\* (a variant that adopts the requested value in place of the reported one)
USB2000_integration_time_echo(time_us, os) ==
    LET s == IF time_us = <<>> THEN Ok(<<>>, <<>>)
             ELSE USB2000_set_integration_time(time_us[1], os[1])
        q == query_status(os[2])
    IN  IF s.exc # "none" THEN s
        ELSE IF q.exc # "none" THEN Raise(q.exc, s.ev \o q.ev)
        ELSE Ok(s.ev \o q.ev,
                IF time_us = <<>> THEN <<q.ret.integration_time>> ELSE time_us)

\* integration_time(time_us=None); os: outcomes of the set and the query
USB2000_integration_time(time_us, os) ==
    LET s == IF time_us = <<>> THEN Ok(<<>>, <<>>)
             ELSE USB2000_set_integration_time(time_us[1], os[1])
        q == query_status(os[2])
    IN  IF s.exc # "none" THEN s
        ELSE IF q.exc # "none" THEN Raise(q.exc, s.ev \o q.ev)
        ELSE Ok(s.ev \o q.ev, <<q.ret.integration_time>>)

\* device_temperature()
USB2000_device_temperature(o) == read_pcb_temperature(o)

\* np.arange(a, b)
arange(a, b) == [j \in 1..(b - a) |-> a + j - 1]

\* leading samples dropped: [20:]
USB2000_dark_pixels == 20
\* (a variant that keeps the dark pixels in the wavelength row)
USB2000_pixels_all == arange(0, 2048)
\* pixel indices of the wavelength row: np.arange(20, 2048)
USB2000_pixels == arange(20, 2048)
\* terms of the linearisation polynomial: range(8)
USB2000_nl_terms == 8

(* acquire_spectrum(): ret is the 2-row array np.vstack([wavelength,       *)
(* intensity]).  Its entries are floats, so each row is kept by what its   *)
(* entries are computed from:                                              *)
(*   wavelength[j] = sum(wl[i] * pixels[j]**i for i in range(4))           *)
(*   intensity[j]  = raw[j] / sum(nl[i] * raw[j]**i for i in range(terms)) *)
(*                   * scale                                               *)
\* (a variant that queries the status again before every request)
USB2000_acquire_spectrum_redetect(self_it, self_usbcomm, self_wl, self_nl, self_st, o) ==
    LET q == query_status(Answer(DevStatusRecord(self_it, self_usbcomm)))
        r == USB2000_request_spectrum(self_it, q.ret.usb_speed, o)
    IN  [r EXCEPT !.ev = q.ev \o r.ev]

USB2000_acquire_spectrum(self_it, self_usbcomm, self_wl, self_nl, self_st, o) ==
    LET rows(r) ==
            LET raw_intensity ==
                    [j \in 1..(Len(r.ret) - USB2000_dark_pixels) |->
                        r.ret[USB2000_dark_pixels + j]]
            IN  IF r.exc # "none" THEN r
                ELSE IF Len(self_wl) < 4 \/ Len(self_nl) < USB2000_nl_terms
                     THEN Raise("IndexError", r.ev)
                ELSE IF Len(USB2000_pixels) # Len(raw_intensity)
                     THEN Raise("ValueError", r.ev)
                ELSE Ok(r.ev, [pixels |-> USB2000_pixels,
                               wl |-> SubSeq(self_wl, 1, 4),
                               raw |-> raw_intensity,
                               nl |-> SubSeq(self_nl, 1, USB2000_nl_terms),
                               terms |-> USB2000_nl_terms,
                               scale |-> self_st])
    IN  CHOOSE a \in
            {rows(r) : r \in {USB2000_request_spectrum(self_it, self_usbcomm, o)}} :
            TRUE

----------------------------------------------------------------------------
(* class STS: the 64-byte frame *)

START_BYTES == 49345
PROTOCOL_VERSION == 256
\* struct.pack('<L', 0xC2C3C4C5)
END_BYTES == <<197, 196, 195, 194>>

MSG_GET_SERIAL == 256
MSG_GET_SERIAL_LENGHT == 257
MSG_GET_CORRECTED_SPECTRUM == 1052672
MSG_SET_INTEGRATION_TIME == 1114128
MSG_GET_HW_VERSION == 128
MSG_GET_SW_VERSION == 144
MSG_SET_AVG_SCANS == 1179664
MSG_GET_ALL_TEMPERATURE == 4194306
MSG_GET_WAVELENGTH_COEFF == 1573121
MSG_GET_NONLINEAR_COEFF_COUNT == 1577216
MSG_GET_NONLINEAR_COEFF == 1577217
MSG_GET_STRAYLIGHT_COEFF_COUNT == 1585408
MSG_GET_STRAYLIGHT_COEFF == 1585409

\* struct.pack('<HHHHLLLHBB..L16sL', START, VERSION, 0, 0, command, 0, 0,
\*             0, 0, length, payload.., 0x14, '', END): payload is the 16
\* bytes after the length byte
STS_pack(command, length, payload) ==
    pack_H(START_BYTES) \o pack_H(PROTOCOL_VERSION) \o pack_H(0) \o pack_H(0)
    \o pack_I(command) \o pack_I(0) \o pack_I(0) \o pack_H(0) \o pack_B(0)
    \o pack_B(length) \o payload \o pack_I(20) \o Zeros(16) \o END_BYTES

\* a 32-bit float field.  The device model holds small integers only, which
\* a float carries exactly; the field is laid out as their 4-byte
\* little-endian two's complement
pack_f(v) == pack_I(v)
unpack_f(b, off) == unpack_L(b, off)

\* str(bytes).replace('\0', '')
StripNul(b) == SelectSeq(b, LAMBDA x : x # 0)

\* the device's STS frame for message type msg with error number status
DevFrame(msg, status, payload) ==
    pack_H(START_BYTES) \o pack_H(PROTOCOL_VERSION) \o pack_H(0)
    \o pack_H(status) \o pack_I(msg) \o pack_I(0) \o Zeros(6) \o pack_B(0)
    \o pack_B(Len(payload)) \o payload \o Zeros(16 - Len(payload))
    \o pack_I(20) \o Zeros(16) \o END_BYTES

DevStsSerial == <<83, 49, 50, 51>>
DevStsWlCoef == <<330, 1, 2, 1>>
DevStsNlCoef == <<31, 32, 33, 34, 35, 36, 37, 38>>
DevStsSlCoef == <<41, 42>>
DevStsTemperatures == {<<25, 0, 30>>, <<40, 0, 45>>}
\* the error number of a frame the device answers an unsupported message with
DevErrorCodes == {5}

\* the answer payload of the device for message type msg (index: the
\* coefficient asked for, count: its nonlinearity coefficient count)
DevPayload(msg, index, count) ==
    CASE msg = MSG_GET_HW_VERSION -> <<3>>
      [] msg = MSG_GET_SW_VERSION -> <<7>>
      [] msg = MSG_GET_SERIAL_LENGHT -> <<Len(DevStsSerial)>>
      [] msg = MSG_GET_SERIAL -> DevStsSerial
      [] msg = MSG_GET_WAVELENGTH_COEFF -> pack_f(DevStsWlCoef[index + 1])
      [] msg = MSG_GET_NONLINEAR_COEFF_COUNT -> <<count>>
      [] msg = MSG_GET_NONLINEAR_COEFF -> pack_f(DevStsNlCoef[index + 1])
      [] msg = MSG_GET_STRAYLIGHT_COEFF_COUNT -> <<Len(DevStsSlCoef)>>
      [] msg = MSG_GET_STRAYLIGHT_COEFF -> pack_f(DevStsSlCoef[index + 1])
      [] OTHER -> <<>>

(* A device may lack an entry: it then answers every message of one type   *)
(* with a frame whose error number is not 0 ("status"), or with a short    *)
(* transfer ("length").  flt is the type and the way.                       *)
NoFault == [msg |-> 0, how |-> "none"]
DevFaults ==
    {NoFault}
    \cup {[msg |-> m, how |-> "status"] :
            m \in {MSG_GET_HW_VERSION, MSG_GET_SERIAL, MSG_GET_WAVELENGTH_COEFF,
                   MSG_GET_NONLINEAR_COEFF, MSG_GET_NONLINEAR_COEFF_COUNT,
                   MSG_GET_STRAYLIGHT_COEFF_COUNT, MSG_GET_ALL_TEMPERATURE}}
    \cup {[msg |-> m, how |-> "length"] :
            m \in {MSG_GET_WAVELENGTH_COEFF, MSG_GET_ALL_TEMPERATURE}}
    \cup {[msg |-> m, how |-> "marker"] :
            m \in {MSG_GET_NONLINEAR_COEFF_COUNT, MSG_GET_ALL_TEMPERATURE}}

DevAnswer(lack, msg, payload) ==
    IF lack.msg # msg THEN DevFrame(msg, 0, payload)
    ELSE IF lack.how = "status"
         THEN DevFrame(msg, CHOOSE e \in DevErrorCodes : TRUE, <<>>)
    ELSE IF lack.how = "marker"
         THEN pack_H(0) \o SubSeq(DevFrame(msg, 0, payload), 3, 64)
    ELSE SubSeq(DevFrame(msg, 0, payload), 1, 32)

\* outcomes of one exchange of message type msg
FrameOutcomes(lack, msg, payload) ==
    {WriteFails, ReadFails, Answer(DevAnswer(lack, msg, payload))}

\* outcomes of a run of exchanges, the j-th answered by ans[j]: all
\* succeed, or the first or the last fails in the transport
FrameOutcomeSeqs(ans) ==
    {[j \in 1..Len(ans) |-> Answer(ans[j])]}
    \cup {[j \in 1..Len(ans) |-> IF j = f THEN bad ELSE Answer(ans[j])] :
            f \in {1, Len(ans)} \ {0}, bad \in {WriteFails, ReadFails}}

\* byte j (1-based) of the 2112 bytes of one STS spectrum: a 44-byte
\* header, 1024 samples, a 20-byte trailer
DevStsSpectrumByte(pat, j) ==
    IF j <= 44 THEN 200 + (j % 50)
    ELSE IF j > 44 + 2 * 1024 THEN 100 + (j % 20)
    ELSE DevSpectrumByte(pat, j - 44)

----------------------------------------------------------------------------
(* class STS: private methods *)

Exchange(frame) == <<Wr(EP1_out, frame), Rd(EP1_in, EP1_in_size)>>

\* the common shape of the one-frame queries: write, read, check the
\* length and ack[3], return field(ret) or -1
STS_query(frame, o, value) ==
    IF ~o.w THEN Raise("USBError", <<Wr(EP1_out, frame)>>)
    ELSE IF ~o.r THEN Raise("USBError", Exchange(frame))
    ELSE IF Len(o.resp) = 64
         THEN IF unpack_H(o.resp, 6) = 0 THEN Ok(Exchange(frame), <<value>>)
              ELSE Ok(Exchange(frame), <<-1>>)
    ELSE Ok(Exchange(frame), <<-1>>)

\* _query_coefficient_count(command): ack[9] of '<HHHHLL6sBBB15sL16sL'
STS_query_coefficient_count(command, o) ==
    STS_query(STS_pack(command, 0, Zeros(16)), o, unpack_B(o.resp, 24))

\* _query_coefficient(index, command): ack[9] of '<HHHHLL6sBBf12sL16sL'
STS_query_coefficient(index, command, o) ==
    STS_query(STS_pack(command, 1, pack_B(index) \o Zeros(15)), o,
              unpack_f(o.resp, 24))

\* _get_hw_version / _get_sw_version: ack[9] of '<HHHHLL6sBBB15sL16sL'
STS_get_hw_version(o) ==
    STS_query(STS_pack(MSG_GET_HW_VERSION, 0, Zeros(16)), o, unpack_B(o.resp, 24))
STS_get_sw_version(o) ==
    STS_query(STS_pack(MSG_GET_SW_VERSION, 0, Zeros(16)), o, unpack_B(o.resp, 24))

\* _get_serial: the length query, then ack[9] of '<HHHHLL6sBB16sL16sL'
\* with its NULs removed; ret is the string, or <<-1>> for -1
STS_get_serial(os) ==
    LET n == STS_query_coefficient_count(MSG_GET_SERIAL_LENGHT, os[1])
        frame == STS_pack(MSG_GET_SERIAL, 0, Zeros(16))
        o == os[2]
    IN  IF n.exc # "none" THEN n
        ELSE IF ~o.w THEN Raise("USBError", n.ev \o <<Wr(EP1_out, frame)>>)
        ELSE IF ~o.r THEN Raise("USBError", n.ev \o Exchange(frame))
        ELSE IF Len(o.resp) = 64 /\ unpack_H(o.resp, 6) = 0
             THEN Ok(n.ev \o Exchange(frame), StripNul(SubSeq(o.resp, 25, 40)))
        ELSE Ok(n.ev \o Exchange(frame), <<-1>>)

(* _set_integration_time(time_us): ret is <<-1>> where the method returns  *)
(* -1 and <<>> where it returns None; assigned tells whether `self._it =   *)
(* time_us` ran, which it does in the except branch alone.                 *)
\* the frame of struct.pack('<HHHHLLLHBBL12sL16sL', ..., 0x04, time_us, '', ...)
STS_time_frame(hi, lo) ==
    STS_pack(MSG_SET_INTEGRATION_TIME, 4, pack_I2(hi, lo) \o Zeros(12))

\* ack[9] of struct.unpack('<HHHHLL6sBBL12sL16sL', ret), as its two halves
STS_ack_time(ret) == unpack_L2(ret, 24)

STS_set_integration_time(time_us, o) ==
    LET frame == STS_time_frame(time_us \div 65536, time_us % 65536)
    IN  IF ~o.w
        THEN [exc |-> "USBError", ev |-> <<Wr(EP1_out, frame)>>, ret |-> <<>>,
              assigned |-> FALSE]
        ELSE IF ~o.r
        THEN [exc |-> "none", ev |-> Exchange(frame), ret |-> <<>>,
              assigned |-> TRUE]
        ELSE [exc |-> "none", ev |-> Exchange(frame), ret |-> <<-1>>,
              assigned |-> FALSE]

\* _set_scan_averages(scan_averages): as _set_integration_time
STS_set_scan_averages(scans, o) ==
    LET frame == STS_pack(MSG_SET_AVG_SCANS, 2, pack_H(scans) \o Zeros(14))
    IN  IF ~o.w
        THEN [exc |-> "USBError", ev |-> <<Wr(EP1_out, frame)>>, ret |-> <<>>,
              assigned |-> FALSE]
        ELSE IF ~o.r
        THEN [exc |-> "none", ev |-> Exchange(frame), ret |-> <<>>,
              assigned |-> TRUE]
        ELSE [exc |-> "none", ev |-> Exchange(frame), ret |-> <<-1>>,
              assigned |-> FALSE]

\* number of reads of one spectrum: range(33)
STS_reads == 33
\* samples of '<HHHHLLLHBB16sL1024H16sL' and the offset of the first
STS_pixels == 1024
STS_header == 44
STS_trailer == 20

\* ret = [self._dev.read(self._EP1_in, self._EP1_in_size) for _ in range(33)]
\* ret = sum(ret[1:], ret[0])
STS_read_spectrum(pat, short) ==
    LET chunk(j) ==
            [b \in 1..(IF short /\ j = STS_reads THEN EP1_in_size - 2
                       ELSE EP1_in_size) |->
                DevStsSpectrumByte(pat, (j - 1) * EP1_in_size + b)]
    IN  Join(chunk(1), [j \in 1..(STS_reads - 1) |-> chunk(j + 1)])

\* struct.unpack('<HHHHLLLHBB16sL1024H16sL', ret)[12:1036]
\* the format '<HHHHLLLHBB16sL1024H16sL' as runs of n fields of one size
\* (a string field is one field)
STS_spectrum_format ==
    <<[n |-> 4, size |-> 2], [n |-> 3, size |-> 4], [n |-> 1, size |-> 2],
      [n |-> 2, size |-> 1], [n |-> 1, size |-> 16], [n |-> 1, size |-> 4],
      [n |-> 1024, size |-> 2], [n |-> 1, size |-> 16], [n |-> 1, size |-> 4]>>

\* struct.calcsize of a format
RECURSIVE calcsize(_)
calcsize(fmt) ==
    IF fmt = <<>> THEN 0 ELSE Head(fmt).n * Head(fmt).size + calcsize(Tail(fmt))

\* the byte offset of field e (counted from 0) of a format
RECURSIVE field_offset(_, _)
field_offset(fmt, e) ==
    IF e = 0 \/ fmt = <<>> THEN 0
    ELSE IF e >= Head(fmt).n
         THEN Head(fmt).n * Head(fmt).size + field_offset(Tail(fmt), e - Head(fmt).n)
    ELSE e * Head(fmt).size

\* spectrum[12:1036]
STS_slice_from == 12
STS_slice_to == 1036

\* (a variant that returns spectrum[11:1035])
STS_unpack_spectrum_shifted(ret) ==
    [k \in 1..(STS_slice_to - STS_slice_from) |->
        unpack_H(ret, field_offset(STS_spectrum_format, STS_slice_from + k - 2))]

STS_unpack_spectrum(ret) ==
    [k \in 1..(STS_slice_to - STS_slice_from) |->
        unpack_H(ret, field_offset(STS_spectrum_format, STS_slice_from + k - 1))]

\* tabulated over the device's data, as for the USB2000
STS_joined == [p \in Patterns, h \in BOOLEAN |-> STS_read_spectrum(p, h)]
STS_unpacked ==
    [p \in Patterns, h \in BOOLEAN |->
        IF Len(STS_joined[p, h]) # calcsize(STS_spectrum_format)
        THEN <<>>
        ELSE STS_unpack_spectrum(STS_joined[p, h])]

\* _request_spectrum; has_it: whether self._it is assigned
STS_request_spectrum(has_it, self_it, self_scan_averages, o) ==
    LET frame == STS_pack(MSG_GET_CORRECTED_SPECTRUM, 0, Zeros(16))
        nread == IF o.failAt \in 1..STS_reads THEN o.failAt ELSE STS_reads
        ev1 == <<Wr(EP1_out, frame)>>
        ev2 == ev1 \o <<Sleep(Max((self_it + 100000) * self_scan_averages, 0))>>
        ev3 == ev2 \o [j \in 1..nread |-> Rd(EP1_in, EP1_in_size)]
        ret == STS_joined[o.pat, o.short]
    IN  IF ~o.w THEN Raise("USBError", ev1)
        ELSE IF ~has_it THEN Raise("AttributeError", ev1)
        ELSE IF o.failAt \in 1..STS_reads THEN Raise("USBError", ev3)
        ELSE IF Len(ret) # calcsize(STS_spectrum_format)
             THEN Raise("struct.error", ev3)
        ELSE Ok(ev3, STS_unpacked[o.pat, o.short])

\* [float(self._query_coefficient(i, command)) for i in range(n)]
RECURSIVE STS_coefficients(_, _, _, _)
STS_coefficients(command, index, n, os) ==
    IF index >= n THEN Ok(<<>>, <<>>)
    ELSE LET q == STS_query_coefficient(index, command, Head(os))
             rest == STS_coefficients(command, index + 1, n, Tail(os))
         IN  IF q.exc # "none" THEN q
             ELSE IF rest.exc # "none" THEN Raise(rest.exc, q.ev \o rest.ev)
             ELSE Ok(q.ev \o rest.ev, q.ret \o rest.ret)

\* _get_wavelength_calibration
STS_get_wavelength_calibration(os) ==
    STS_coefficients(MSG_GET_WAVELENGTH_COEFF, 0, 4, os)

\* the coefficient count the driver accepts
STS_nl_accepted == 8

\* (a variant without the check of the count)
STS_get_nonlinearity_calibration_unchecked(os) ==
    LET n == STS_query_coefficient_count(MSG_GET_NONLINEAR_COEFF_COUNT, Head(os))
        rest == STS_coefficients(MSG_GET_NONLINEAR_COEFF, 0,
                                 IF Len(os) > 1 THEN n.ret[1] ELSE 0, Tail(os))
    IN  IF n.exc # "none" THEN n
        ELSE IF rest.exc # "none" THEN Raise(rest.exc, n.ev \o rest.ev)
        ELSE Ok(n.ev \o rest.ev, rest.ret)

\* _get_nonlinearity_calibration
STS_get_nonlinearity_calibration(os) ==
    LET n == STS_query_coefficient_count(MSG_GET_NONLINEAR_COEFF_COUNT, Head(os))
        rest == STS_coefficients(MSG_GET_NONLINEAR_COEFF, 0, n.ret[1], Tail(os))
    IN  IF n.exc # "none" THEN n
        ELSE IF n.ret[1] # STS_nl_accepted
             THEN Raise("OOError(This spectrometer has less correction factors)", n.ev)
        ELSE IF rest.exc # "none" THEN Raise(rest.exc, n.ev \o rest.ev)
        ELSE Ok(n.ev \o rest.ev, rest.ret)

\* _get_stray_light_calibration
STS_get_stray_light_calibration(os) ==
    LET n == STS_query_coefficient_count(MSG_GET_STRAYLIGHT_COEFF_COUNT, Head(os))
        rest == STS_coefficients(MSG_GET_STRAYLIGHT_COEFF, 0, n.ret[1], Tail(os))
    IN  IF n.exc # "none" THEN n
        ELSE IF rest.exc # "none" THEN Raise(rest.exc, n.ev \o rest.ev)
        ELSE Ok(n.ev \o rest.ev, rest.ret)

\* _read_temperatures: [ack[10], ack[12]] of '<HHHHLLLHBB3f4sL16sL'
STS_read_temperatures(o) ==
    LET frame == STS_pack(MSG_GET_ALL_TEMPERATURE, 0, Zeros(16))
    IN  IF ~o.w THEN Raise("USBError", <<Wr(EP1_out, frame)>>)
        ELSE IF ~o.r THEN Raise("USBError", Exchange(frame))
        ELSE IF Len(o.resp) # 64 THEN Raise("struct.error", Exchange(frame))
        ELSE Ok(Exchange(frame), <<unpack_f(o.resp, 24), unpack_f(o.resp, 32)>>)

----------------------------------------------------------------------------
(* class STS: public methods *)

\* integration_time(time_us=None): returns time_us
STS_integration_time(time_us, o) ==
    LET s == STS_set_integration_time(time_us[1], o)
    IN  IF time_us = <<>>
        THEN [exc |-> "none", ev |-> <<>>, ret |-> <<>>, assigned |-> FALSE]
        ELSE [s EXCEPT !.ret = IF s.exc = "none" THEN time_us ELSE <<>>]

\* set_scan_averages(scan_averages=None): returns None
STS_public_set_scan_averages(scans, o) ==
    LET s == STS_set_scan_averages(scans[1], o)
    IN  IF scans = <<>>
        THEN [exc |-> "none", ev |-> <<>>, ret |-> <<>>, assigned |-> FALSE]
        ELSE [s EXCEPT !.ret = <<>>]

\* device_temperature(): temperatures[0]
STS_device_temperature(o) ==
    LET t == STS_read_temperatures(o)
    IN  IF t.exc # "none" THEN t ELSE Ok(t.ev, <<t.ret[1]>>)

\* pixel indices of the wavelength row: np.arange(1024)
STS_arange == arange(0, 1024)

\* acquire_spectrum(): the rows as for the USB2000; nl_coeffs = len(self._nl)
STS_acquire_spectrum(has_it, self_it, self_scan_averages, self_wl, self_nl, o) ==
    LET r == STS_request_spectrum(has_it, self_it, self_scan_averages, o)
    IN  IF r.exc # "none" THEN r
        ELSE IF Len(self_wl) < 4 THEN Raise("IndexError", r.ev)
        ELSE IF Len(STS_arange) # Len(r.ret) THEN Raise("ValueError", r.ev)
        ELSE Ok(r.ev, [pixels |-> STS_arange,
                       wl |-> SubSeq(self_wl, 1, 4),
                       raw |-> r.ret,
                       nl |-> self_nl,
                       terms |-> Len(self_nl),
                       scale |-> <<>>])

----------------------------------------------------------------------------
(* State *)

\* kinds of transport calls counted in `sent`
Kinds == {"find", "set_configuration", "initialize", "set_integration_time",
          "query_information", "request_spectrum", "read_temperature",
          "query_status", "set_scan_averages", "get_version", "get_serial",
          "coefficient_count", "coefficient"}

\* the command a write carries, by its opcode (USB2000)
USB2000_kind(data) ==
    CASE data[1] = 1 -> "initialize"
      [] data[1] = 2 -> "set_integration_time"
      [] data[1] = 5 -> "query_information"
      [] data[1] = 9 -> "request_spectrum"
      [] data[1] = 108 -> "read_temperature"
      [] data[1] = 254 -> "query_status"
      [] OTHER -> "none"

\* the command a 64-byte frame carries, by its message type (STS)
STS_kind(data) ==
    LET msg == unpack_L(data, 8)
    IN  CASE msg = MSG_SET_INTEGRATION_TIME -> "set_integration_time"
          [] msg = MSG_SET_AVG_SCANS -> "set_scan_averages"
          [] msg = MSG_GET_CORRECTED_SPECTRUM -> "request_spectrum"
          [] msg = MSG_GET_ALL_TEMPERATURE -> "read_temperature"
          [] msg \in {MSG_GET_HW_VERSION, MSG_GET_SW_VERSION} -> "get_version"
          [] msg = MSG_GET_SERIAL -> "get_serial"
          [] msg \in {MSG_GET_SERIAL_LENGHT, MSG_GET_NONLINEAR_COEFF_COUNT,
                      MSG_GET_STRAYLIGHT_COEFF_COUNT} -> "coefficient_count"
          [] msg \in {MSG_GET_WAVELENGTH_COEFF, MSG_GET_NONLINEAR_COEFF,
                      MSG_GET_STRAYLIGHT_COEFF} -> "coefficient"
          [] OTHER -> "none"

IsWrite(e) == e.k = "write"

\* the kinds of the writes among the transport calls ev, in order
WriteKinds(ev) ==
    CHOOSE ks \in {[j \in 1..Len(ws) |->
                        IF Len(ws[j].data) = 64 THEN STS_kind(ws[j].data)
                        ELSE USB2000_kind(ws[j].data)] :
                    ws \in {SelectSeq(ev, IsWrite)}} : TRUE

NoneSent == [k \in Kinds |-> 0]

\* the counters `from` after the transport calls ev
Tally(from, ev) ==
    CHOOSE t \in {[k \in Kinds |->
                    from[k] + Cardinality({j \in 1..Len(ks) : ks[j] = k})] :
                  ks \in {WriteKinds(ev)}} : TRUE

\* `written` after the transport calls ev
Written(ev) ==
    CHOOSE ws \in {written \cup {ks[j] : j \in 1..Len(ks)} :
                   ks \in {WriteKinds(ev)}} : TRUE

Last(op, arg, o, r) ==
    [op |-> op, arg |-> arg, o |-> o, ev |-> r.ev, exc |-> r.exc, ret |-> r.ret]

Init ==
    /\ variant \in {"USB2000", "STS"}
    /\ flt \in IF variant = "STS" THEN DevFaults ELSE {NoFault}
    /\ pc = "find"
    /\ i = 0
    /\ exc = "none"
    /\ attrs = {}
    /\ usbcomm = 0
    /\ it = 0
    /\ scan_averages = 0
    /\ wl = <<>>
    /\ nl = <<>>
    /\ st = <<>>
    /\ sl = <<>>
    /\ Serial = <<>>
    /\ written = {}
    /\ sent = NoneSent
    /\ last = Last("none", <<>>, <<>>, Ok(<<>>, <<>>))
    /\ ops = 0

\* one statement of __init__ that calls a method: r is what the call did
Statement(op, arg, o, r, next) ==
    /\ last' = Last(op, arg, o, r)
    /\ sent' = Tally(NoneSent, r.ev)
    /\ written' = Written(r.ev)
    /\ pc' = IF r.exc = "none" THEN next ELSE "failed"
    /\ exc' = IF r.exc = "none" THEN exc ELSE r.exc

\* usb.core.find(idVendor, idProduct); None raises _OOError
\* (a variant that looks the device up a second time before it gives up)
Find_retrying ==
    /\ pc = "find"
    /\ \E found \in BOOLEAN :
        /\ pc' = IF found THEN "set_configuration"
                 ELSE IF sent["find"] < 1 THEN "find" ELSE "failed"
        /\ exc' = IF found \/ sent["find"] < 1 THEN exc
                  ELSE "OOError(No spectrometer found)"
    /\ sent' = [sent EXCEPT !["find"] = @ + 1]
    /\ written' = written \cup {"find"}
    /\ last' = Last("find", <<>>, <<>>, Ok(<<>>, <<>>))
    /\ attrs' = attrs \cup {"_dev"}
    /\ UNCHANGED <<variant, flt, i, usbcomm, it, scan_averages, wl, nl, st, sl,
                   Serial, ops>>

Find ==
    /\ pc = "find"
    /\ \E found \in BOOLEAN :
        /\ pc' = IF found THEN "set_configuration" ELSE "failed"
        /\ exc' = IF found THEN exc ELSE "OOError(No spectrometer found)"
    /\ sent' = [NoneSent EXCEPT !["find"] = 1]
    /\ written' = written \cup {"find"}
    /\ last' = Last("find", <<>>, <<>>, Ok(<<>>, <<>>))
    /\ attrs' = attrs \cup {"_dev"}
    /\ UNCHANGED <<variant, flt, i, usbcomm, it, scan_averages, wl, nl, st, sl,
                   Serial, ops>>

\* self._dev.set_configuration()
SetConfiguration ==
    /\ pc = "set_configuration"
    /\ \E ok \in BOOLEAN :
        /\ pc' = IF ~ok THEN "failed"
                 ELSE IF variant = "USB2000" THEN "initialize" ELSE "drain"
        /\ exc' = IF ok THEN exc ELSE "USBError"
    /\ sent' = [NoneSent EXCEPT !["set_configuration"] = 1]
    /\ written' = written \cup {"set_configuration"}
    /\ last' = Last("set_configuration", <<>>, <<>>, Ok(<<>>, <<>>))
    /\ UNCHANGED <<variant, flt, i, attrs, usbcomm, it, scan_averages, wl, nl, st,
                   sl, Serial, ops>>

----------------------------------------------------------------------------
(* USB2000.__init__ *)

\* the statements of __init__ after set_configuration, in program order
USB2000_steps ==
    <<"initialize", "speed", "integration_time", "spectrum", "wavelength",
      "nonlinearity", "saturation", "serial", "ready">>

\* (a variant in which the integration time is set before the speed is
\* detected)
USB2000_next_swapped(step) ==
    CASE step = "initialize" -> "integration_time"
      [] step = "integration_time" -> "speed"
      [] step = "speed" -> "spectrum"
      [] OTHER -> USB2000_steps[(CHOOSE k \in 1..Len(USB2000_steps) :
                                    USB2000_steps[k] = step) + 1]

\* the statement that follows a statement which completed without raising
USB2000_next(step) ==
    USB2000_steps[(CHOOSE k \in 1..Len(USB2000_steps) : USB2000_steps[k] = step) + 1]

\* self._initialize()
USB2000_Initialize ==
    /\ variant = "USB2000" /\ pc = "initialize"
    /\ \E o \in {WriteFails, Answer(<<>>)} :
        Statement("_initialize", <<>>, o, USB2000_initialize(o),
                  USB2000_next("initialize"))
    /\ i' = 0
    /\ UNCHANGED <<variant, flt, attrs, usbcomm, it, scan_averages, wl, nl, st, sl,
                   Serial, ops>>

\* for i in range(10): try: self._usbcomm = self._query_status()['usb_speed']
\*                          break
\*                     except usb.core.USBError: pass
\* else: raise _OOError('Initialization USBCOM')
\* (a variant whose handler is a bare except)
USB2000_SpeedDetection_bare ==
    /\ variant = "USB2000" /\ pc = "speed" /\ i < USB2000_speed_attempts
    /\ \E o \in StatusOutcomes :
        \E r \in {query_status(o)} :
            /\ last' = Last("_query_status", <<>>, o, r)
            /\ sent' = Tally(IF i = 0 THEN NoneSent ELSE sent, r.ev)
            /\ written' = Written(r.ev)
            /\ IF r.exc = "none"
               THEN /\ usbcomm' = r.ret.usb_speed
                    /\ attrs' = attrs \cup {"_usbcomm"}
                    /\ pc' = USB2000_next("speed")
                    /\ i' = 0
                    /\ exc' = exc
               ELSE /\ i' = i + 1
                    /\ pc' = IF i + 1 < USB2000_speed_attempts THEN "speed" ELSE "failed"
                    /\ exc' = IF i + 1 < USB2000_speed_attempts THEN exc
                              ELSE "OOError(Initialization USBCOM)"
                    /\ UNCHANGED <<usbcomm, attrs>>
    /\ UNCHANGED <<variant, flt, it, scan_averages, wl, nl, st, sl, Serial, ops>>

USB2000_SpeedDetection ==
    /\ variant = "USB2000" /\ pc = "speed" /\ i < USB2000_speed_attempts
    /\ \E o \in StatusOutcomes :
        \E r \in {query_status(o)} :
            /\ last' = Last("_query_status", <<>>, o, r)
            /\ sent' = Tally(IF i = 0 THEN NoneSent ELSE sent, r.ev)
            /\ written' = Written(r.ev)
            /\ IF r.exc = "none"
               THEN /\ usbcomm' = r.ret.usb_speed
                    /\ attrs' = attrs \cup {"_usbcomm"}
                    /\ pc' = USB2000_next("speed")
                    /\ i' = 0
                    /\ exc' = exc
               ELSE IF r.exc = "USBError"
               THEN /\ i' = i + 1
                    /\ pc' = IF i + 1 < USB2000_speed_attempts THEN "speed" ELSE "failed"
                    /\ exc' = IF i + 1 < USB2000_speed_attempts THEN exc
                              ELSE "OOError(Initialization USBCOM)"
                    /\ UNCHANGED <<usbcomm, attrs>>
               ELSE /\ pc' = "failed"
                    /\ exc' = r.exc
                    /\ UNCHANGED <<usbcomm, attrs, i>>
    /\ UNCHANGED <<variant, flt, it, scan_averages, wl, nl, st, sl, Serial, ops>>

\* self.integration_time(1000)
USB2000_InitIntegrationTime ==
    /\ variant = "USB2000" /\ pc = "integration_time"
    /\ \E o1 \in {WriteFails, Answer(<<>>)}, o2 \in StatusOutcomes :
        \E r \in {USB2000_integration_time(<<1000>>, <<o1, o2>>)} :
            /\ Statement("integration_time", <<1000>>, <<o1, o2>>, r,
                         USB2000_next("integration_time"))
            /\ it' = IF r.exc = "none" THEN r.ret[1] ELSE it
            /\ attrs' = IF r.exc = "none" THEN attrs \cup {"_it"} ELSE attrs
    /\ i' = 0
    /\ UNCHANGED <<variant, flt, usbcomm, scan_averages, wl, nl, st, sl, Serial, ops>>

\* for i in range(10): try: self._request_spectrum()
\*                          break
\*                     except: pass
\* else: raise _OOError('Initialization SPECTRUM')
USB2000_FirstAcquisition ==
    /\ variant = "USB2000" /\ pc = "spectrum" /\ i < USB2000_spectrum_attempts
    /\ \E o \in SpectrumOutcomes(USB2000_chunks(usbcomm).n) :
        \E r \in {USB2000_request_spectrum(it, usbcomm, o)} :
            /\ last' = Last("_request_spectrum", <<>>, o, r)
            /\ sent' = Tally(IF i = 0 THEN NoneSent ELSE sent, r.ev)
            /\ written' = Written(r.ev)
            /\ IF r.exc = "none"
               THEN /\ pc' = USB2000_next("spectrum")
                    /\ i' = 0
                    /\ exc' = exc
               ELSE /\ i' = i + 1
                    /\ pc' = IF i + 1 < USB2000_spectrum_attempts THEN "spectrum" ELSE "failed"
                    /\ exc' = IF i + 1 < USB2000_spectrum_attempts THEN exc
                              ELSE "OOError(Initialization SPECTRUM)"
    /\ UNCHANGED <<variant, flt, attrs, usbcomm, it, scan_averages, wl, nl, st, sl,
                   Serial, ops>>

\* self._wl = self._get_wavelength_calibration()
USB2000_LoadWavelength ==
    /\ variant = "USB2000" /\ pc = "wavelength"
    /\ \E os \in InfoOutcomeSeqs(<<1, 2, 3, 4>>, 7) :
        \E r \in {USB2000_get_wavelength_calibration(os)} :
            /\ Statement("_get_wavelength_calibration", <<>>, os, r,
                         USB2000_next("wavelength"))
            /\ wl' = IF r.exc = "none" THEN r.ret ELSE wl
            /\ attrs' = IF r.exc = "none" THEN attrs \cup {"_wl"} ELSE attrs
    /\ UNCHANGED <<variant, flt, i, usbcomm, it, scan_averages, nl, st, sl, Serial, ops>>

\* self._nl = self._get_nonlinearity_calibration()
USB2000_LoadNonlinearity ==
    /\ variant = "USB2000" /\ pc = "nonlinearity"
    /\ \E order \in NlCounts :
       \E os \in InfoOutcomeSeqs(<<14>> \o USB2000_nl_slots, order) :
        \E r \in {USB2000_get_nonlinearity_calibration(os)} :
            /\ Statement("_get_nonlinearity_calibration", <<order>>, os, r,
                         USB2000_next("nonlinearity"))
            /\ nl' = IF r.exc = "none" THEN r.ret ELSE nl
            /\ attrs' = IF r.exc = "none" THEN attrs \cup {"_nl"} ELSE attrs
    /\ UNCHANGED <<variant, flt, i, usbcomm, it, scan_averages, wl, st, sl, Serial, ops>>

\* self._st = self._get_saturation_calibration()
USB2000_LoadSaturation ==
    /\ variant = "USB2000" /\ pc = "saturation"
    /\ \E os \in InfoOutcomeSeqs(<<17>>, 7) :
        \E r \in {USB2000_get_saturation_calibration(os[1])} :
            /\ Statement("_get_saturation_calibration", <<>>, os, r,
                         USB2000_next("saturation"))
            /\ st' = IF r.exc = "none" THEN r.ret ELSE st
            /\ attrs' = IF r.exc = "none" THEN attrs \cup {"_st"} ELSE attrs
    /\ UNCHANGED <<variant, flt, i, usbcomm, it, scan_averages, wl, nl, sl, Serial, ops>>

\* self.Serial = self._get_serial()
USB2000_LoadSerial ==
    /\ variant = "USB2000" /\ pc = "serial"
    /\ \E os \in InfoOutcomeSeqs(<<0>>, 7) :
        \E r \in {USB2000_get_serial(os[1])} :
            /\ Statement("_get_serial", <<>>, os, r, USB2000_next("serial"))
            /\ Serial' = IF r.exc = "none" THEN r.ret ELSE Serial
            /\ attrs' = IF r.exc = "none" THEN attrs \cup {"Serial"} ELSE attrs
    /\ UNCHANGED <<variant, flt, i, usbcomm, it, scan_averages, wl, nl, st, sl, ops>>

----------------------------------------------------------------------------
(* Public methods of a constructed USB2000 *)

\* a public method call: r is what the call did
Call(op, arg, o, r) ==
    /\ last' = Last(op, arg, o, r)
    /\ sent' = Tally(NoneSent, r.ev)
    /\ written' = Written(r.ev)
    /\ ops' = ops + 1

\* arguments a caller passes for time_us
TimeArgs == {<<>>} \cup {<<t>> : t \in ItValues}

USB2000_IntegrationTime ==
    /\ variant = "USB2000" /\ pc = "ready" /\ ops < MaxOps
    /\ \E t \in TimeArgs, o2 \in StatusOutcomes :
       \E o1 \in IF t = <<>> THEN {Answer(<<>>)} ELSE {WriteFails, Answer(<<>>)} :
       \E r \in {USB2000_integration_time(t, <<o1, o2>>)} :
            /\ Call("integration_time", t, <<o1, o2>>, r)
            /\ it' = IF r.exc = "none" THEN r.ret[1] ELSE it
    /\ UNCHANGED <<variant, flt, pc, i, exc, attrs, usbcomm, scan_averages, wl, nl,
                   st, sl, Serial>>

USB2000_DeviceTemperature ==
    /\ variant = "USB2000" /\ pc = "ready" /\ ops < MaxOps
    /\ \E o \in TemperatureOutcomes :
       \E r \in {USB2000_device_temperature(o)} :
            Call("device_temperature", <<>>, o, r)
    /\ UNCHANGED <<variant, flt, pc, i, exc, attrs, usbcomm, it, scan_averages, wl,
                   nl, st, sl, Serial>>

USB2000_AcquireSpectrum ==
    /\ variant = "USB2000" /\ pc = "ready" /\ ops < MaxOps
    /\ \E o \in SpectrumOutcomes(USB2000_chunks(usbcomm).n) :
       \E r \in {USB2000_acquire_spectrum(it, usbcomm, wl, nl, st, o)} :
            Call("acquire_spectrum", <<>>, o, r)
    /\ UNCHANGED <<variant, flt, pc, i, exc, attrs, usbcomm, it, scan_averages, wl,
                   nl, st, sl, Serial>>

----------------------------------------------------------------------------
(* STS.__init__ *)

\* self._initialize(): while(True): try: self._dev.read(...) except: break
\* One step per read of the loop.  i counts the reads that returned data, up
\* to MaxDrain; further reads may still return data.
\* (a variant that leaves the loop after MaxDrain reads that returned data)
STS_Initialize_bounded ==
    /\ variant = "STS" /\ pc = "drain"
    /\ \E o \in {ReadFails, Answer(Zeros(EP1_in_size))} :
        /\ last' = Last("_initialize", <<>>, o, Ok(<<Rd(EP1_in, EP1_in_size)>>, <<>>))
        /\ pc' = IF o.r /\ i + 1 < MaxDrain THEN "drain" ELSE "hw"
        /\ i' = IF o.r /\ i + 1 < MaxDrain THEN i + 1 ELSE 0
    /\ sent' = NoneSent
    /\ UNCHANGED <<variant, flt, exc, attrs, usbcomm, it, scan_averages, wl, nl,
                   st, sl, Serial, written, ops>>

STS_Initialize ==
    /\ variant = "STS" /\ pc = "drain"
    /\ \E o \in {ReadFails, Answer(Zeros(EP1_in_size))} :
        /\ last' = Last("_initialize", <<>>, o, Ok(<<Rd(EP1_in, EP1_in_size)>>, <<>>))
        /\ pc' = IF o.r THEN "drain" ELSE "hw"
        /\ i' = IF ~o.r THEN 0 ELSE IF i < MaxDrain THEN i + 1 ELSE i
    /\ sent' = NoneSent
    /\ UNCHANGED <<variant, flt, exc, attrs, usbcomm, it, scan_averages, wl, nl,
                   st, sl, Serial, written, ops>>

\* print "HW Version: %i" % self._get_hw_version()
STS_HwVersion ==
    /\ variant = "STS" /\ pc = "hw"
    /\ \E o \in FrameOutcomes(flt, MSG_GET_HW_VERSION,
                              DevPayload(MSG_GET_HW_VERSION, 0, 0)) :
        Statement("_get_hw_version", <<>>, o, STS_get_hw_version(o), "sw")
    /\ UNCHANGED <<variant, flt, i, attrs, usbcomm, it, scan_averages, wl, nl,
                   st, sl, Serial, ops>>

\* print "SW Version: %i" % self._get_sw_version()
STS_SwVersion ==
    /\ variant = "STS" /\ pc = "sw"
    /\ \E o \in FrameOutcomes(flt, MSG_GET_SW_VERSION,
                              DevPayload(MSG_GET_SW_VERSION, 0, 0)) :
        Statement("_get_sw_version", <<>>, o, STS_get_sw_version(o), "sts_serial")
    /\ UNCHANGED <<variant, flt, i, attrs, usbcomm, it, scan_averages, wl, nl,
                   st, sl, Serial, ops>>

\* the device's answers to a run of messages msgs[j] with index idx[j]
DevAnswers(msgs, idx, count) ==
    [j \in 1..Len(msgs) |-> DevAnswer(flt, msgs[j], DevPayload(msgs[j], idx[j], count))]

\* self.Serial = self._get_serial()
STS_LoadSerial ==
    /\ variant = "STS" /\ pc = "sts_serial"
    /\ \E os \in FrameOutcomeSeqs(DevAnswers(<<MSG_GET_SERIAL_LENGHT, MSG_GET_SERIAL>>,
                                             <<0, 0>>, 0)) :
        \E r \in {STS_get_serial(os)} :
            /\ Statement("_get_serial", <<>>, os, r, "sts_it")
            /\ Serial' = IF r.exc = "none" THEN r.ret ELSE Serial
            /\ attrs' = IF r.exc = "none" THEN attrs \cup {"Serial"} ELSE attrs
    /\ UNCHANGED <<variant, flt, i, usbcomm, it, scan_averages, wl, nl, st, sl, ops>>

\* outcomes of a set command: the device may or may not acknowledge it
SetOutcomes(msg) == {WriteFails, ReadFails, Answer(DevFrame(msg, 0, <<>>))}

\* self.integration_time(10000) # sets self._it
STS_InitIntegrationTime ==
    /\ variant = "STS" /\ pc = "sts_it"
    /\ \E o \in SetOutcomes(MSG_SET_INTEGRATION_TIME) :
        \E r \in {STS_integration_time(<<10000>>, o)} :
            /\ Statement("integration_time", <<10000>>, o, r, "sts_avg")
            /\ it' = IF r.assigned THEN 10000 ELSE it
            /\ attrs' = IF r.assigned THEN attrs \cup {"_it"} ELSE attrs
    /\ UNCHANGED <<variant, flt, i, usbcomm, scan_averages, wl, nl, st, sl,
                   Serial, ops>>

\* self.set_scan_averages(10)
STS_InitScanAverages ==
    /\ variant = "STS" /\ pc = "sts_avg"
    /\ \E o \in SetOutcomes(MSG_SET_AVG_SCANS) :
        \E r \in {STS_public_set_scan_averages(<<10>>, o)} :
            /\ Statement("set_scan_averages", <<10>>, o, r, "sts_request")
            /\ scan_averages' = IF r.assigned THEN 10 ELSE scan_averages
    /\ UNCHANGED <<variant, flt, i, attrs, usbcomm, it, wl, nl, st, sl,
                   Serial, ops>>

\* outcome of an STS spectrum request: the write, the read that fails
\* (0: none), a short last read, the data
StsSpectrumOutcomes ==
    {[w |-> FALSE, failAt |-> 0, short |-> FALSE, pat |-> 0]}
    \cup {[w |-> TRUE, failAt |-> c, short |-> FALSE, pat |-> 0] :
            c \in FailChunks(STS_reads)}
    \cup {[w |-> TRUE, failAt |-> 0, short |-> TRUE, pat |-> 0]}
    \cup {[w |-> TRUE, failAt |-> 0, short |-> FALSE, pat |-> p] : p \in Patterns}

\* self._request_spectrum(), outside any try
STS_InitRequest ==
    /\ variant = "STS" /\ pc = "sts_request"
    /\ \E o \in StsSpectrumOutcomes :
        \E r \in {STS_request_spectrum("_it" \in attrs, it, scan_averages, o)} :
            Statement("_request_spectrum", <<>>, o, r, "sts_wl")
    /\ UNCHANGED <<variant, flt, i, attrs, usbcomm, it, scan_averages, wl, nl,
                   st, sl, Serial, ops>>

\* self._wl = self._get_wavelength_calibration()
STS_LoadWavelength ==
    /\ variant = "STS" /\ pc = "sts_wl"
    /\ \E os \in FrameOutcomeSeqs(DevAnswers([j \in 1..4 |-> MSG_GET_WAVELENGTH_COEFF],
                                             arange(0, 4), 0)) :
        \E r \in {STS_get_wavelength_calibration(os)} :
            /\ Statement("_get_wavelength_calibration", <<>>, os, r, "sts_nl")
            /\ wl' = IF r.exc = "none" THEN r.ret ELSE wl
            /\ attrs' = IF r.exc = "none" THEN attrs \cup {"_wl"} ELSE attrs
    /\ UNCHANGED <<variant, flt, i, usbcomm, it, scan_averages, nl, st, sl,
                   Serial, ops>>

\* self._nl = self._get_nonlinearity_calibration()
STS_LoadNonlinearity ==
    /\ variant = "STS" /\ pc = "sts_nl"
    /\ \E count \in NlCounts :
       \E os \in FrameOutcomeSeqs(DevAnswers(
                    <<MSG_GET_NONLINEAR_COEFF_COUNT>>
                        \o [j \in 1..(IF count = STS_nl_accepted THEN count ELSE 0) |->
                                MSG_GET_NONLINEAR_COEFF],
                    <<0>> \o arange(0, count), count)) :
        \E r \in {STS_get_nonlinearity_calibration(os)} :
            /\ Statement("_get_nonlinearity_calibration", <<count>>, os, r, "sts_sl")
            /\ nl' = IF r.exc = "none" THEN r.ret ELSE nl
            /\ attrs' = IF r.exc = "none" THEN attrs \cup {"_nl"} ELSE attrs
    /\ UNCHANGED <<variant, flt, i, usbcomm, it, scan_averages, wl, st, sl,
                   Serial, ops>>

\* self._sl = self._get_stray_light_calibration()
STS_LoadStrayLight ==
    /\ variant = "STS" /\ pc = "sts_sl"
    /\ \E os \in FrameOutcomeSeqs(DevAnswers(
                    <<MSG_GET_STRAYLIGHT_COEFF_COUNT>>
                        \o [j \in 1..Len(DevStsSlCoef) |-> MSG_GET_STRAYLIGHT_COEFF],
                    <<0>> \o arange(0, Len(DevStsSlCoef)), 0)) :
        \E r \in {STS_get_stray_light_calibration(os)} :
            /\ Statement("_get_stray_light_calibration", <<>>, os, r, "sts_retry")
            /\ sl' = IF r.exc = "none" THEN r.ret ELSE sl
            /\ attrs' = IF r.exc = "none" THEN attrs \cup {"_sl"} ELSE attrs
    /\ i' = 0
    /\ UNCHANGED <<variant, flt, usbcomm, it, scan_averages, wl, nl, st,
                   Serial, ops>>

\* for i in range(10): try: self._request_spectrum()
\*                          break
\*                     except: pass
\* else: raise _OOError('Initialization SPECTRUM')
STS_FirstAcquisition ==
    /\ variant = "STS" /\ pc = "sts_retry" /\ i < STS_spectrum_attempts
    /\ \E o \in StsSpectrumOutcomes :
        \E r \in {STS_request_spectrum("_it" \in attrs, it, scan_averages, o)} :
            /\ last' = Last("_request_spectrum", <<>>, o, r)
            /\ sent' = Tally(IF i = 0 THEN NoneSent ELSE sent, r.ev)
            /\ written' = Written(r.ev)
            /\ IF r.exc = "none"
               THEN /\ pc' = "ready"
                    /\ i' = 0
                    /\ exc' = exc
               ELSE /\ i' = i + 1
                    /\ pc' = IF i + 1 < STS_spectrum_attempts THEN "sts_retry" ELSE "failed"
                    /\ exc' = IF i + 1 < STS_spectrum_attempts THEN exc
                              ELSE "OOError(Initialization SPECTRUM)"
    /\ UNCHANGED <<variant, flt, attrs, usbcomm, it, scan_averages, wl, nl, st,
                   sl, Serial, ops>>

----------------------------------------------------------------------------
(* Public methods of a constructed STS *)

\* arguments a caller passes for scan_averages
ScanArgs == {<<>>, <<5>>}

STS_IntegrationTime ==
    /\ variant = "STS" /\ pc = "ready" /\ ops < MaxOps
    /\ \E t \in TimeArgs :
       \E o \in IF t = <<>> THEN {Answer(<<>>)}
                ELSE SetOutcomes(MSG_SET_INTEGRATION_TIME) :
       \E r \in {STS_integration_time(t, o)} :
            /\ Call("integration_time", t, o, r)
            /\ it' = IF r.assigned THEN t[1] ELSE it
    /\ UNCHANGED <<variant, flt, pc, i, exc, attrs, usbcomm, scan_averages, wl,
                   nl, st, sl, Serial>>

STS_SetScanAverages ==
    /\ variant = "STS" /\ pc = "ready" /\ ops < MaxOps
    /\ \E n \in ScanArgs :
       \E o \in IF n = <<>> THEN {Answer(<<>>)} ELSE SetOutcomes(MSG_SET_AVG_SCANS) :
       \E r \in {STS_public_set_scan_averages(n, o)} :
            /\ Call("set_scan_averages", n, o, r)
            /\ scan_averages' = IF r.assigned THEN n[1] ELSE scan_averages
    /\ UNCHANGED <<variant, flt, pc, i, exc, attrs, usbcomm, it, wl, nl, st, sl,
                   Serial>>

STS_DeviceTemperature ==
    /\ variant = "STS" /\ pc = "ready" /\ ops < MaxOps
    /\ \E t \in DevStsTemperatures :
       \E o \in FrameOutcomes(flt, MSG_GET_ALL_TEMPERATURE,
                              pack_f(t[1]) \o pack_f(t[2]) \o pack_f(t[3])) :
       \E r \in {STS_device_temperature(o)} :
            Call("device_temperature", t, o, r)
    /\ UNCHANGED <<variant, flt, pc, i, exc, attrs, usbcomm, it, scan_averages,
                   wl, nl, st, sl, Serial>>

STS_AcquireSpectrum ==
    /\ variant = "STS" /\ pc = "ready" /\ ops < MaxOps
    /\ \E o \in StsSpectrumOutcomes :
       \E r \in {STS_acquire_spectrum("_it" \in attrs, it, scan_averages, wl, nl, o)} :
            Call("acquire_spectrum", <<>>, o, r)
    /\ UNCHANGED <<variant, flt, pc, i, exc, attrs, usbcomm, it, scan_averages,
                   wl, nl, st, sl, Serial>>

Next ==
    \/ Find
    \/ SetConfiguration
    \/ USB2000_Initialize
    \/ USB2000_SpeedDetection
    \/ USB2000_InitIntegrationTime
    \/ USB2000_FirstAcquisition
    \/ USB2000_LoadWavelength
    \/ USB2000_LoadNonlinearity
    \/ USB2000_LoadSaturation
    \/ USB2000_LoadSerial
    \/ USB2000_IntegrationTime
    \/ USB2000_DeviceTemperature
    \/ USB2000_AcquireSpectrum
    \/ STS_Initialize
    \/ STS_HwVersion
    \/ STS_SwVersion
    \/ STS_LoadSerial
    \/ STS_InitIntegrationTime
    \/ STS_InitScanAverages
    \/ STS_InitRequest
    \/ STS_LoadWavelength
    \/ STS_LoadNonlinearity
    \/ STS_LoadStrayLight
    \/ STS_FirstAcquisition
    \/ STS_IntegrationTime
    \/ STS_SetScanAverages
    \/ STS_DeviceTemperature
    \/ STS_AcquireSpectrum

Spec == Init /\ [][Next]_vars

----------------------------------------------------------------------------
(* Properties *)

\* the constructor returned a session / raised
Returned == pc = "ready"
Raised == pc = "failed"

\* the running or just finished statement of __init__ is the speed-detection loop
InSpeedLoop ==
    variant = "USB2000" /\ last.op = "_query_status"
        /\ pc \in {"speed", "integration_time", "failed"}

(* C1: the speed-detection loop of USB2000.__init__ issues at most 10     *)
(* status queries.  A query that succeeds ends the loop: the constructor   *)
(* goes on to set the integration time, with _usbcomm the usb_speed byte   *)
(* of that response (also when it is the 10th query, after 9 transport     *)
(* failures).  The constructor raises OOError('Initialization USBCOM')     *)
(* only after 10 queries that each failed in the transport, and then no    *)
(* set-integration-time command and no spectrum request was written.       *)
C1_SpeedDetectionBounded ==
    /\ InSpeedLoop => sent["query_status"] <= 10
    /\ (InSpeedLoop /\ last.exc = "none") =>
            /\ pc = "integration_time"
            /\ usbcomm = unpack_B(last.o.resp, 14)
    /\ (InSpeedLoop /\ last.exc = "USBError" /\ sent["query_status"] < 10) =>
            pc = "speed"
    /\ (InSpeedLoop /\ last.exc = "USBError" /\ sent["query_status"] = 10) =>
            /\ Raised
            /\ exc = "OOError(Initialization USBCOM)"
    /\ exc = "OOError(Initialization USBCOM)" =>
            /\ Raised
            /\ InSpeedLoop /\ last.exc = "USBError" /\ sent["query_status"] = 10
            /\ written \cap {"set_integration_time", "request_spectrum"} = {}

\* C1 witness: nine transport failures, then the 10th query answers with
\* the high-speed code and the constructor goes on
C1_TenthQuerySucceeds ==
    /\ InSpeedLoop /\ pc = "integration_time"
    /\ sent["query_status"] = 10
    /\ usbcomm = HIGHSPEED

\* the running or just finished statement of USB2000.__init__ is the
\* first-acquisition loop
InFirstAcquisition ==
    variant = "USB2000" /\ last.op = "_request_spectrum"
        /\ pc \in {"spectrum", "wavelength", "failed"}

(* C2: the first-acquisition loop of USB2000.__init__ issues at most 10   *)
(* spectrum requests.  The first request that succeeds ends the loop and   *)
(* the constructor goes on to load the calibration; a request that fails   *)
(* in any way is retried while fewer than 10 were made.  After 10 failed   *)
(* requests the constructor raises OOError('Initialization SPECTRUM'): no  *)
(* calibration slot was read and no session is returned.                   *)
C2_FirstAcquisitionBounded ==
    /\ InFirstAcquisition => sent["request_spectrum"] <= 10
    /\ (InFirstAcquisition /\ last.exc = "none") => pc = "wavelength"
    /\ (InFirstAcquisition /\ last.exc # "none" /\ sent["request_spectrum"] < 10) =>
            pc = "spectrum"
    /\ (InFirstAcquisition /\ last.exc # "none" /\ sent["request_spectrum"] = 10) =>
            /\ Raised
            /\ exc = "OOError(Initialization SPECTRUM)"
    /\ (variant = "USB2000" /\ exc = "OOError(Initialization SPECTRUM)") =>
            /\ Raised /\ ~Returned
            /\ InFirstAcquisition /\ sent["request_spectrum"] = 10
            /\ "query_information" \notin written
            /\ attrs \cap {"_wl", "_nl", "_st", "Serial"} = {}

\* C2 witness: ten requests failed and the constructor raised
C2_TenRequestsFail ==
    /\ InFirstAcquisition /\ Raised
    /\ exc = "OOError(Initialization SPECTRUM)"
    /\ sent["request_spectrum"] = 10

\* the calibration the session holds is the calibration the device stores
CalibrationLoaded ==
    IF variant = "USB2000"
    THEN /\ {"_wl", "_nl", "_st"} \subseteq attrs
         /\ wl = DevWlCoef /\ nl = DevNlCoef /\ st = <<65535, DevSaturation>>
    ELSE /\ {"_wl", "_nl", "_sl"} \subseteq attrs
         /\ wl = DevStsWlCoef /\ nl = DevStsNlCoef /\ sl = DevStsSlCoef

(* C3: whenever a constructor of either class returns a session, its       *)
(* wavelength and nonlinearity coefficients and its saturation factor /    *)
(* stray-light coefficients are loaded from the device, self._it is        *)
(* assigned and a spectrum was requested; a constructor that does not      *)
(* return has raised.                                                      *)
C3_ReturnedSessionInitialized ==
    /\ Returned =>
            /\ CalibrationLoaded
            /\ "_it" \in attrs
            /\ "request_spectrum" \in written
    /\ Raised => exc # "none"

IsRead(e) == e.k = "read"
NumReads(ev) == Len(SelectSeq(ev, IsRead))

\* the outcomes of the exchanges of the last STS call that reads frames
LastFrames ==
    IF last.op \in {"_get_hw_version", "_get_sw_version", "device_temperature"}
    THEN <<last.o>>
    ELSE IF last.op \in {"_get_serial", "_get_wavelength_calibration",
                         "_get_nonlinearity_calibration",
                         "_get_stray_light_calibration"}
    THEN last.o
    ELSE <<>>

\* the last STS call read a 64-byte frame whose status field is not 0
ReadBadStatus ==
    /\ variant = "STS"
    /\ \E j \in 1..NumReads(last.ev) :
        /\ j \in DOMAIN LastFrames
        /\ LastFrames[j].r
        /\ Len(LastFrames[j].resp) = 64
        /\ unpack_H(LastFrames[j].resp, 6) # 0

(* C4: an STS command that reads a 64-byte frame whose status field is     *)
(* not 0 raises, and no -1 stands in for a value of that frame, neither in *)
(* what the command returns nor in the calibration of the session.         *)
C4_BadStatusRaises ==
    /\ ReadBadStatus => last.exc # "none"
    /\ variant = "STS" =>
            \A c \in {wl, nl, sl} : \A j \in 1..Len(c) : c[j] # -1

\* the device answered the nonlinearity count query of the last call with n
ReportedCount(n) ==
    /\ last.op = "_get_nonlinearity_calibration"
    /\ last.o[1] = IF variant = "USB2000" THEN Answer(DevInfoRecord(14, n))
                   ELSE Answer(DevFrame(MSG_GET_NONLINEAR_COEFF_COUNT, 0, <<n>>))

Mismatch == "OOError(This spectrometer has less correction factors)"

(* C5 (as the code has it): a device that reports 5 nonlinearity           *)
(* coefficients makes the constructor of either class raise the            *)
(* calibration mismatch error; no session is returned and no public method *)
(* ran, but the spectrum request of the initialization was written before  *)
(* the count was read.                                                     *)
C5_CountFiveFailsAfterInitRequest ==
    ReportedCount(5) =>
        /\ Raised /\ exc = Mismatch
        /\ "_nl" \notin attrs
        /\ ops = 0
        /\ "request_spectrum" \in written

\* C5 witness: an STS device reported 5 and the constructor raised
C5_CountFiveReported ==
    variant = "STS" /\ ReportedCount(5) /\ Raised

(* C5 as stated: a reported count of 5 fails the construction with the     *)
(* calibration mismatch error before any spectrum request is written.      *)
C5_CountFiveFailsBeforeAnyRequest ==
    ReportedCount(5) =>
        /\ Raised /\ exc = Mismatch
        /\ "request_spectrum" \notin written

\* a public acquire_spectrum returned its rows
Acquired == last.op = "acquire_spectrum" /\ last.exc = "none"

LegacyTimeReturned ==
    variant = "USB2000" /\ last.op = "integration_time" /\ last.exc = "none"

(* C7: USB2000.integration_time(t) writes one 0x02 command carrying t and  *)
(* then one status query, integration_time() the status query alone;       *)
(* afterwards self._it is the integration time of that status response     *)
(* and it is the value returned.                                           *)
C7_LegacyIntegrationTime ==
    LegacyTimeReturned =>
        /\ SelectSeq(last.ev, IsWrite) =
                IF last.arg = <<>> THEN <<Wr(EP1_out, <<254>>)>>
                ELSE <<Wr(EP1_out, <<2>> \o pack_I(last.arg[1])),
                       Wr(EP1_out, <<254>>)>>
        /\ it = unpack_L(last.o[2].resp, 2)
        /\ last.ret = <<it>>
        /\ "_it" \in attrs

\* C7 witness: integration_time(1000) returned with the device reporting
\* another time
C7_DeviceReportsOtherTime ==
    /\ LegacyTimeReturned /\ last.arg = <<1000>>
    /\ it = 250000

\* the last call is STS.integration_time and it returned
FramedTimeReturned ==
    variant = "STS" /\ last.op = "integration_time" /\ last.exc = "none"

(* C8: after STS.integration_time(t) returns, self._it is t whether or not *)
(* the device acknowledged; integration_time() writes nothing and returns  *)
(* self._it.                                                               *)
C8_FramedIntegrationTime ==
    FramedTimeReturned =>
        IF last.arg # <<>>
        THEN "_it" \in attrs /\ it = last.arg[1]
        ELSE last.ev = <<>> /\ last.ret = <<it>>

\* the spectrum the device sent in the last acquisition, sample k (0-based),
\* as the class decodes a sample: USB2000 'h', STS 'H'
SampleSent(k) ==
    IF variant = "USB2000"
    THEN IF DevSample(last.o.pat, k) >= 32768
         THEN DevSample(last.o.pat, k) - 65536 ELSE DevSample(last.o.pat, k)
    ELSE DevSample(last.o.pat, k)

\* the spectrum request of the last acquire_spectrum went through
RequestWentThrough ==
    /\ last.op = "acquire_spectrum"
    /\ last.o.w /\ last.o.failAt = 0 /\ ~last.o.short
    /\ variant = "USB2000" => last.o.sync = SYNC

(* C9: an acquire_spectrum whose spectrum request went through returns     *)
(* two rows of one length: 2028 for the USB2000, row entry i made from raw *)
(* sample 20+i and pixel index 20+i, and 1024 for the STS, entry i made    *)
(* from raw sample i and pixel index i.                                    *)
C9_RowsAligned ==
    /\ RequestWentThrough => last.exc = "none"
    /\ Acquired =>
        LET n == IF variant = "USB2000" THEN 2028 ELSE 1024
            first == IF variant = "USB2000" THEN 20 ELSE 0
        IN  /\ Len(last.ret.pixels) = n
            /\ Len(last.ret.raw) = n
            /\ \A j \in 1..n :
                /\ last.ret.pixels[j] = first + (j - 1)
                /\ last.ret.raw[j] = SampleSent(first + (j - 1))

\* C9 witness: a USB2000 returned the rows of a spectrum with samples
\* above 32767
C9_LegacyRowsReturned ==
    variant = "USB2000" /\ Acquired /\ last.o.pat = 40000

\* the last call is a USB2000 spectrum request none of whose transfers failed
LegacyRequestRead ==
    /\ variant = "USB2000"
    /\ last.op \in {"_request_spectrum", "acquire_spectrum"}
    /\ last.o.w /\ last.o.failAt = 0

\* the reads of the spectrum endpoint in the last call
SpectrumReads == SelectSeq(last.ev, LAMBDA e : e.k = "read" /\ e.ep = EP2_in /\ e.n # 1)

RECURSIVE SumN(_)
SumN(ev) == IF ev = <<>> THEN 0 ELSE Head(ev).n + SumN(Tail(ev))

(* C10: a USB2000 spectrum request makes 8 reads of 512 bytes when         *)
(* self._usbcomm is 0x80 and 64 reads of 64 bytes for any other code; the  *)
(* reads ask for 4096 bytes, the size of 2048 16-bit samples.              *)
C10_ChunkingBySpeed ==
    LegacyRequestRead =>
        /\ Len(SpectrumReads) = IF usbcomm = 128 THEN 8 ELSE 64
        /\ \A j \in 1..Len(SpectrumReads) :
                SpectrumReads[j].n = IF usbcomm = 128 THEN 512 ELSE 64
        /\ SumN(SpectrumReads) = 4096
        /\ SumN(SpectrumReads) = 2 * 2048

\* C10 witness: a high-speed request read its 8 chunks
C10_HighSpeedRead ==
    LegacyRequestRead /\ usbcomm = 128 /\ Len(SpectrumReads) = 8

\* the last call is a USB2000 spectrum request whose chunks were all read
\* and have the length of 2048 samples
LegacyChunksRead == LegacyRequestRead /\ ~last.o.short

\* the one-byte reads of the spectrum endpoint in the last call
SyncReads ==
    SelectSeq(last.ev, LAMBDA e : e.k = "read" /\ e.ep = EP2_in /\ e.n = 1)

(* C11: a USB2000 spectrum request whose chunks were all read reads one    *)
(* more byte, as its last transport call; it returns the samples if that   *)
(* byte is 0x69 and raises OOError('request_spectrum: Wrong answer'),      *)
(* returning nothing, for any other byte.                                  *)
C11_SyncByteRequired ==
    LegacyChunksRead =>
        /\ Len(SyncReads) = 1
        /\ last.ev[Len(last.ev)] = Rd(EP2_in, 1)
        /\ last.ev[Len(last.ev) - 1] = SpectrumReads[Len(SpectrumReads)]
        /\ IF last.o.sync = 105
           THEN last.exc = "none" /\ last.ret # <<>>
           ELSE /\ last.exc = "OOError(request_spectrum: Wrong answer)"
                /\ last.ret = <<>>

\* C11 witness: acquire_spectrum of a constructed USB2000 read a sync byte
\* other than 0x69 and raised
C11_WrongSyncRaised ==
    /\ LegacyChunksRead /\ last.op = "acquire_spectrum"
    /\ last.o.sync # 105
    /\ last.exc = "OOError(request_spectrum: Wrong answer)"

\* byte j (1-based) of what the device sent for the last spectrum request,
\* all chunks in the order they were read
SentByte(j) ==
    IF variant = "USB2000" THEN DevSpectrumByte(last.o.pat, j)
    ELSE DevStsSpectrumByte(last.o.pat, j)

\* the 16-bit little-endian value at sample position k (0-based) of those
\* bytes, decoded as the class decodes it (USB2000 'h', STS 'H' after the
\* 44-byte header)
SentWord(k) ==
    LET off == IF variant = "USB2000" THEN 2 * k ELSE 44 + 2 * k
        v == SentByte(off + 1) + 256 * SentByte(off + 2)
    IN  IF variant = "USB2000" /\ v >= 32768 THEN v - 65536 ELSE v

(* C12: the spectrum a _request_spectrum of either class returns is        *)
(* decoded from all chunks joined in the order they were read, the first   *)
(* chunk first: sample k is the 16-bit little-endian value at sample       *)
(* position k of what the device sent.  A request one of whose chunk reads *)
(* fails raises and returns no spectrum.                                   *)
C12_ChunksJoinedInOrder ==
    last.op = "_request_spectrum" =>
        /\ last.exc = "none" =>
            /\ Len(last.ret) = IF variant = "USB2000" THEN 2048 ELSE 1024
            /\ \A k \in 0..(Len(last.ret) - 1) : last.ret[k + 1] = SentWord(k)
        /\ (last.o.w /\ last.o.failAt # 0) =>
            /\ last.exc # "none"
            /\ last.ret = <<>>

\* C12 witness: the STS constructor got the spectrum of its 33 reads
C12_FramedSpectrumDecoded ==
    /\ variant = "STS" /\ last.op = "_request_spectrum" /\ last.exc = "none"
    /\ last.o.pat = 40000
    /\ NumReads(last.ev) = 33


----------------------------------------------------------------------------
\* Encoders, decoders and row computations applied to enumerated inputs.
\* The session variables keep their unconstructed values; each action applies
\* one function of the driver to inputs drawn from the sets below and records
\* the input and the result in last.

HalfWords == {0, 1, 255, 256, 32767, 32768, 65535}

PureInit ==
    /\ variant \in {"USB2000", "STS"}
    /\ flt = NoFault
    /\ pc = "pure"
    /\ i = 0
    /\ exc = "none"
    /\ attrs = {}
    /\ usbcomm = 0
    /\ it = 0
    /\ scan_averages = 0
    /\ wl = <<>>
    /\ nl = <<>>
    /\ st = <<>>
    /\ sl = <<>>
    /\ Serial = <<>>
    /\ written = {}
    /\ sent = NoneSent
    /\ last = [op |-> "none"]
    /\ ops = 0

Apply(r) ==
    /\ pc = "pure"
    /\ last' = r
    /\ UNCHANGED <<variant, flt, pc, i, exc, attrs, usbcomm, it, scan_averages,
                   wl, nl, st, sl, Serial, written, sent, ops>>

\* the set-integration-time command for t = hi * 65536 + lo, the field the
\* device receives in it, and the device's report of that field decoded by
\* _query_status (legacy) or by the acknowledgement decoding (framed)
EncodeTime ==
    \E hi \in HalfWords, lo \in HalfWords :
        LET cmd == IF variant = "USB2000" THEN USB2000_time_command(hi, lo)
                   ELSE STS_time_frame(hi, lo)
            off == IF variant = "USB2000" THEN 1 ELSE 24
            field == SubSeq(cmd, off + 1, off + 4)
            report == IF variant = "USB2000"
                      THEN DevStatusRecordOf(field, HIGHSPEED)
                      ELSE DevFrame(MSG_SET_INTEGRATION_TIME, 0, field)
            decoded == IF variant = "USB2000" THEN USB2000_status_time(report)
                       ELSE STS_ack_time(report)
        IN  Apply([op |-> "encode_time", arg |-> <<hi, lo>>, cmd |-> cmd,
                   field |-> field, ret |-> decoded])

\* Integers beyond the range of the checker are pairs <<h, l>> standing for
\* h * 65536 + l with 0 <= l < 65536 (h carries the sign).
BigNorm(b) == <<b[1] + (b[2] \div 65536), b[2] % 65536>>
BigScale(b, c) == BigNorm(<<b[1] * c, b[2] * c>>)
BigAdd(a, b) == BigNorm(<<a[1] + b[1], a[2] + b[2]>>)

\* the item size of the integer array np.arange returns: the default integer
\* of the numpy build, either 32 or 64 bits
ArangeWidths == {32, 64}

\* reduction of an integer to the two's-complement range of the item size;
\* the values that occur here are below 2^63, so 64 bits never wrap
Wrap(b, width) ==
    IF width = 64 THEN b
    ELSE LET h == b[1] % 65536
         IN  <<IF h >= 32768 THEN h - 65536 ELSE h, b[2]>>

\* element of np.arange(...) ** k for the pixel p, in the array's item size
RECURSIVE int_power(_, _, _)
int_power(p, k, width) ==
    IF k = 0 THEN <<0, 1>>
    ELSE Wrap(BigScale(int_power(p, k - 1, width), p), width)

\* element of sum( self._wl[i] * np.arange(...)**i for i in range(4) )
RECURSIVE wavelength_sum(_, _, _, _)
wavelength_sum(coef, p, width, n) ==
    IF n = 0 THEN <<0, 0>>
    ELSE BigAdd(wavelength_sum(coef, p, width, n - 1),
                BigScale(int_power(p, n - 1, width), coef[n]))

wavelength_terms == 4

WlCoefs == {DevWlCoef, DevStsWlCoef, <<0, 0, 0, 1>>, <<-5, 3, 0, 2>>}

\* the pixels of the variant's range the row is inspected at
PixelSamples ==
    IF variant = "USB2000"
    THEN {USB2000_pixels[k] : k \in {1, 2, 1271, 1272, Len(USB2000_pixels)}}
    ELSE {STS_arange[k] : k \in {1, 2, 512, Len(STS_arange)}}

WavelengthEntry ==
    \E coef \in WlCoefs, p \in PixelSamples, width \in ArangeWidths :
        Apply([op |-> "wavelength", arg |-> [coef |-> coef, pixel |-> p,
                                           width |-> width],
               ret |-> wavelength_sum(coef, p, width, wavelength_terms)])

\* the legacy commands that read a response, with their opcodes
LegacyReads ==
    [query_information |-> 5, query_information_raw |-> 5,
     read_register_information |-> 107, read_pcb_temperature |-> 108,
     query_status |-> 254]

\* the commands that take a sub-address, and the sub-addresses tried
LegacyAddressed ==
    {"query_information", "query_information_raw", "read_register_information"}
LegacyAddresses == {1, 17}

\* what the device answers to the command
DevLegacyResponse(cmd, addr) ==
    CASE cmd \in {"query_information", "query_information_raw"} ->
            DevInfoRecord(addr, USB2000_nl_accepted)
      [] cmd = "read_register_information" -> <<addr>> \o pack_H(DevSaturation)
      [] cmd = "read_pcb_temperature" -> <<8>> \o pack_H(256)
      [] OTHER -> DevStatusRecord(1000, HIGHSPEED)

\* first bytes a response may arrive with
FirstBytes == {0, 1, 5, 8, 17, 107, 108, 254}

legacy_read(cmd, addr, o) ==
    CASE cmd = "query_information" -> query_information(addr, FALSE, o)
      [] cmd = "query_information_raw" -> query_information(addr, TRUE, o)
      [] cmd = "read_register_information" -> read_register_information(addr, o)
      [] cmd = "read_pcb_temperature" -> read_pcb_temperature(o)
      [] OTHER -> query_status(o)

\* a legacy command reads the device's response with the first byte b
LegacyRead ==
    /\ variant = "USB2000"
    /\ \E cmd \in DOMAIN LegacyReads, addr \in LegacyAddresses, b \in FirstBytes :
        \E r \in {legacy_read(cmd, addr,
                               Answer(<<b>> \o Tail(DevLegacyResponse(cmd, addr))))} :
            Apply([op |-> "legacy_read",
                   arg |-> [cmd |-> cmd, addr |-> addr, first |-> b],
                   exc |-> r.exc, ret |-> r.ret])

PureNext ==
    \/ EncodeTime
    \/ WavelengthEntry
    \/ LegacyRead

PureSpec == PureInit /\ [][PureNext]_vars

\* the four bytes of t = hi * 65536 + lo, least significant first
LittleEndian(hi, lo) == <<lo % 256, lo \div 256, hi % 256, hi \div 256>>

\* C13: for every integration time below 2^32 the set-integration-time
\* command carries the time as a 4-byte little-endian unsigned field, and the
\* decoder of the device's integration-time report returns the time again.
C13_TimeRoundTrip ==
    last.op = "encode_time" =>
        /\ last.field = LittleEndian(last.arg[1], last.arg[2])
        /\ last.ret = last.arg

\* C13 witness: the largest time, 2^32 - 1, has been encoded for the framed
\* protocol and decoded from the acknowledgement.
C13_LargestTimeEncoded ==
    /\ variant = "STS"
    /\ last.op = "encode_time"
    /\ last.arg = <<65535, 65535>>
    /\ last.ret = <<65535, 65535>>


\* c0 + c1*p + c2*p^2 + c3*p^3 in exact integers, by Horner's rule
Polynomial(c, p) ==
    BigAdd(BigScale(BigAdd(BigScale(BigAdd(BigScale(<<0, c[4]>>, p),
                                           <<0, c[3]>>), p),
                           <<0, c[2]>>), p),
           <<0, c[1]>>)

\* C14: for every coefficient set and every pixel of the device's range the
\* wavelength row entry of the pixel is c0 + c1*pixel + c2*pixel^2 + c3*pixel^3.
C14_WavelengthPolynomial ==
    last.op = "wavelength" =>
        last.ret = Polynomial(last.arg.coef, last.arg.pixel)

\* C14 on builds whose default integer has 64 bits
C14_WavelengthPolynomial64 ==
    (last.op = "wavelength" /\ last.arg.width = 64) =>
        last.ret = Polynomial(last.arg.coef, last.arg.pixel)

\* C14 for the framed range 0..1023, whatever the item size
C14_WavelengthPolynomialFramed ==
    (last.op = "wavelength" /\ variant = "STS") =>
        last.ret = Polynomial(last.arg.coef, last.arg.pixel)


\* the spectrum request of a first-acquisition attempt failed on what it
\* decoded: the sync byte was not 0x69, or the joined chunks had the wrong
\* length
FramingFailure ==
    /\ last.op = "_request_spectrum"
    /\ pc \in {"spectrum", "sts_retry", "failed"}
    /\ last.exc \in {"OOError(request_spectrum: Wrong answer)", "struct.error"}

\* C15: a framing or synchronization failure is never retried: when a
\* spectrum request of the first-acquisition step fails on the sync byte or
\* on the length of the joined response, construction has aborted and the
\* loop writes no further spectrum request.
C15_FramingFailureAborts ==
    FramingFailure => (pc = "failed" /\ sent["request_spectrum"] = 1)


\* the step is a framed set-integration-time or set-scan-averages command
\* whose acknowledgement read failed in the transport
FramedSetReadFailed ==
    /\ variant = "STS"
    /\ last'.op \in {"integration_time", "set_scan_averages"}
    /\ last'.arg # <<>>
    /\ last'.o = ReadFails

\* C16: a transport failure outside the two retry loops is returned to the
\* caller: a transport error while reading the acknowledgement of a framed
\* set-integration-time or set-scan-averages command makes the operation
\* fail and leaves the integration time and the scan averages unchanged.
C16_SetFailurePropagates ==
    [][FramedSetReadFailed =>
            /\ last'.exc = "USBError"
            /\ it' = it
            /\ scan_averages' = scan_averages
            /\ attrs' = attrs]_vars


\* how far legacy construction has come when control is at a statement:
\* 0 nothing done, 1 device opened, 2 transport configured, 3 speed
\* detected, 4 integration time set, 5 first acquisition verified,
\* 6 calibration loaded, 7 ready
Progress(at) ==
    CASE at = "find" -> 0
      [] at \in {"set_configuration", "initialize"} -> 1
      [] at = "speed" -> 2
      [] at = "integration_time" -> 3
      [] at = "spectrum" -> 4
      [] at \in {"wavelength", "nonlinearity", "saturation"} -> 5
      [] at = "serial" -> 6
      [] at = "ready" -> 7
      [] OTHER -> -1

\* C17: legacy construction passes through device opened, transport
\* configured, speed detected, integration time set, first acquisition
\* verified, calibration loaded, ready, in this order: each step of the
\* constructor either stays within the progress reached, or fails, or
\* advances by exactly one after a statement that completed without raising;
\* and a public operation is invoked only on a session that is ready.
C17_LegacyStepOrder ==
    [][variant = "USB2000" =>
        /\ pc # "failed"
        /\ \/ pc' = "failed"
           \/ Progress(pc') = Progress(pc)
           \/ Progress(pc') = Progress(pc) + 1 /\ last'.exc = "none"
        /\ ops' # ops => (pc = "ready" /\ pc' = "ready")]_vars

\* C17 witness: a legacy session was constructed through all steps and a
\* public operation has been invoked on it.
C17_LegacyOperationOnReady ==
    /\ variant = "USB2000" /\ pc = "ready" /\ ops > 0
    /\ last.op \in {"acquire_spectrum", "device_temperature"}
    /\ {"_usbcomm", "_wl", "_nl", "_st", "Serial"} \subseteq attrs


CalibrationReads ==
    {"_get_wavelength_calibration", "_get_nonlinearity_calibration",
     "_get_saturation_calibration", "_get_stray_light_calibration"}

\* the exchange with outcome o went wrong: the transport failed, or the
\* response has a wrong echo byte (legacy), a wrong length or a non-zero
\* status (framed)
ExchangeFailed(o) ==
    \/ ~o.w
    \/ ~o.r
    \/ variant = "USB2000" /\ (Len(o.resp) < 1 \/ o.resp[1] # 5)
    \/ variant = "STS" /\ (Len(o.resp) # 64 \/ unpack_H(o.resp, 6) # 0)

\* the last statement was a calibration read one of whose exchanges, among
\* those it performed, went wrong
CalibrationReadFailed ==
    /\ last.op \in CalibrationReads
    /\ \E j \in 1..Len(SelectSeq(last.ev, LAMBDA e : e.k = "write")) :
            j \in DOMAIN last.o /\ ExchangeFailed(last.o[j])

\* C18: calibration loading reads the wavelength coefficients, then the
\* nonlinearity coefficients, then the saturation factor (legacy) or the
\* stray-light coefficients (framed); if any one of these reads fails
\* (transport error, wrong echo, non-zero status or wrong-length response)
\* construction aborts and no session is returned.
C18_CalibrationReadFailureAborts ==
    /\ "_nl" \in attrs => "_wl" \in attrs
    /\ "_st" \in attrs => "_nl" \in attrs
    /\ "_sl" \in attrs => "_nl" \in attrs
    /\ CalibrationReadFailed => pc = "failed"

\* C18, the order alone
C18_CalibrationOrder ==
    /\ "_nl" \in attrs => "_wl" \in attrs
    /\ "_st" \in attrs => "_nl" \in attrs
    /\ "_sl" \in attrs => "_nl" \in attrs

\* C18, a failed read aborts, for the legacy reads that check the echo
C18_LegacyCheckedReadAborts ==
    (variant = "USB2000" /\ CalibrationReadFailed
        /\ last.op # "_get_saturation_calibration") => pc = "failed"


\* the last STS call read a 64-byte frame that does not begin with the
\* start marker 0xC0C1
ReadBadMarker ==
    /\ variant = "STS"
    /\ \E j \in 1..NumReads(last.ev) :
        /\ j \in DOMAIN LastFrames
        /\ LastFrames[j].r
        /\ Len(LastFrames[j].resp) = 64
        /\ unpack_H(LastFrames[j].resp, 0) # START_BYTES

\* C19: decoding a framed response validates the start marker: a command
\* that reads a response whose first two bytes are not 0xC0C1 fails, and
\* returns none of its fields.
C19_StartMarkerValidated ==
    ReadBadMarker => (last.exc # "none" /\ last.ret = <<>>)


\* the first byte of the response read by the last legacy command is the
\* command's opcode or the sub-address it queried
EchoMatches ==
    \/ last.arg.first = LegacyReads[last.arg.cmd]
    \/ last.arg.cmd \in LegacyAddressed /\ last.arg.first = last.arg.addr

\* C20: for every legacy command that reads a response (query information
\* including its raw mode, read register, read PCB temperature, query
\* status) the first byte of the response is checked against the opcode or
\* the queried sub-address, and on a mismatch the command fails and returns
\* no data.
C20_LegacyEchoChecked ==
    (last.op = "legacy_read" /\ ~EchoMatches) =>
        (last.exc # "none" /\ last.ret = <<>>)

\* C20 for the two commands that compare the first byte with the opcode or
\* the sub-address: query information (not raw) and read register
C20_EchoCheckedWhereCompared ==
    (last.op = "legacy_read" /\ ~EchoMatches
        /\ last.arg.cmd \in {"query_information", "read_register_information"}) =>
        (last.exc # "none" /\ last.ret = <<>>)

\* read PCB temperature accepts exactly the first byte 0x08
C20_TemperatureFirstByte ==
    (last.op = "legacy_read" /\ last.arg.cmd = "read_pcb_temperature") =>
        (last.exc = "none" <=> last.arg.first = 8)


\* the calibration coefficients and the cached speed mode of the session
Calibration == <<wl, nl, st, sl, usbcomm>>

\* C21: on a constructed session, acquire_spectrum and device_temperature
\* leave the integration time, the scan-average count, the cached usb speed
\* and all calibration coefficients unchanged; integration_time and
\* set_scan_averages leave the calibration coefficients and the cached usb
\* speed unchanged; and acquire_spectrum writes no status query.
C21_PublicOperationsFrame ==
    [][ops' # ops =>
        /\ pc = "ready" /\ pc' = "ready"
        /\ Calibration' = Calibration
        /\ attrs' = attrs
        /\ last'.op \in {"acquire_spectrum", "device_temperature"} =>
                (it' = it /\ scan_averages' = scan_averages)
        /\ last'.op = "integration_time" => scan_averages' = scan_averages
        /\ last'.op = "set_scan_averages" => it' = it
        /\ last'.op = "acquire_spectrum" =>
                (sent'["query_status"] = 0 /\ sent'["query_information"] = 0)]_vars

\* C21 witness: on a legacy session whose integration time was changed by
\* integration_time, acquire_spectrum has returned a spectrum.
C21_AcquiredAfterTimeChange ==
    /\ variant = "USB2000" /\ pc = "ready" /\ ops = 2
    /\ last.op = "acquire_spectrum" /\ last.exc = "none"
    /\ it = 250000


\* The device answers every spectrum command it received with the whole
\* response; a read that fails takes nothing from the endpoint, and a
\* request that raises issues no further read.  The bytes of the response to
\* the last spectrum request that its reads left on the in-endpoint:
USB2000_unread(speed, o) ==
    LET c == USB2000_chunks(speed)
        total == Len(USB2000_joined[speed, o.pat, o.short]) + 1
    IN  IF ~o.w THEN 0
        ELSE IF o.failAt \in 1..c.n THEN total - (o.failAt - 1) * c.size
        ELSE IF o.short \/ o.failAt = c.n + 1 THEN 1
        ELSE 0

STS_unread(has_it, o) ==
    LET total == Len(STS_joined[o.pat, o.short])
    IN  IF ~o.w THEN 0
        ELSE IF ~has_it THEN total
        ELSE IF o.failAt \in 1..STS_reads THEN total - (o.failAt - 1) * EP1_in_size
        ELSE 0

SpectrumRequested == last.op \in {"_request_spectrum", "acquire_spectrum"}

Unread ==
    IF variant = "USB2000" THEN USB2000_unread(usbcomm, last.o)
    ELSE STS_unread("_it" \in attrs, last.o)

\* C22: when a public operation returns or fails, and when the next command
\* is written (in particular by the next attempt of the first-acquisition
\* loop), no byte of the response to the earlier command is left unread on
\* the in-endpoint.
C22_ResponseConsumed ==
    SpectrumRequested => Unread = 0

\* C22 for requests all of whose reads succeed and whose response has the
\* expected length
C22_CompleteRequestConsumed ==
    (SpectrumRequested /\ last.exc \in {"none", "OOError(request_spectrum: Wrong answer)"})
        => Unread = 0


\* the request of the step wrote its command and reached the sleep
Paced(l) ==
    /\ l.op \in {"_request_spectrum", "acquire_spectrum"}
    /\ l.o.w
    /\ l.exc # "AttributeError"

\* C23 as far as the current state goes: in a spectrum request the write
\* comes first, then the sleep, then the first chunk read, and the sleep
\* lasts max(it - 100000, 0) microseconds (legacy) or
\* max((it + 100000) * scan_averages, 0) (framed), never a negative time.
C23_PacingFromState ==
    Paced(last) =>
        /\ Len(last.ev) >= 3
        /\ last.ev[1].k = "write"
        /\ last.ev[2] = Sleep(IF variant = "USB2000" THEN Max(it - 100000, 0)
                              ELSE Max((it + 100000) * scan_averages, 0))
        /\ last.ev[2].n >= 0
        /\ last.ev[3].k = "read"
        /\ \A j \in 3..Len(last.ev) : last.ev[j].k = "read"

\* C23: in every spectrum request the write comes first, then the pacing
\* sleep, then the first chunk read; the sleep lasts max(it - 100000, 0)
\* microseconds (legacy) or max((it + 100000) * scan_averages, 0) (framed)
\* for the current state of the session, is never negative, and for the
\* framed variant is in proportion to the count last set through
\* set_scan_averages.
C23_PacingSleep ==
    [][Paced(last') =>
        /\ last'.ev[1].k = "write"
        /\ last'.ev[2] = Sleep(IF variant = "USB2000" THEN Max(it - 100000, 0)
                               ELSE Max((it + 100000) * scan_averages, 0))
        /\ last'.ev[2].n >= 0
        /\ (variant = "STS" /\ last.op = "set_scan_averages" /\ last.arg # <<>>
                /\ last.exc = "none") =>
                last'.ev[2].n = Max((it + 100000) * last.arg[1], 0)]_vars


NotFound == exc = "OOError(No spectrometer found)"

\* C24: if no device with the variant's ids is found, construction fails
\* with the device-not-found error after exactly one lookup, and nothing is
\* configured, written or read on the transport; nothing else fails at the
\* lookup.
C24_NotFoundFailsAtOnce ==
    /\ NotFound =>
            /\ Raised /\ ~Returned
            /\ last.op = "find" /\ last.ev = <<>>
            /\ sent = [NoneSent EXCEPT !["find"] = 1]
            /\ written = {"find"}
            /\ ops = 0
    /\ (Raised /\ last.op = "find") => NotFound

\* C24 witness: the lookup of the framed variant found no device and
\* construction has failed.
C24_FramedDeviceNotFound ==
    variant = "STS" /\ NotFound /\ Raised /\ sent["find"] = 1


\* the last call was a legacy device_temperature whose response was read
LegacyTemperatureRead ==
    /\ variant = "USB2000" /\ last.op = "device_temperature"
    /\ last.o.w /\ last.o.r

\* the signed 16-bit little-endian value in bytes 1..2 of the response
AdcOf(resp) ==
    LET u == resp[2] + 256 * resp[3]
    IN  IF resp[3] >= 128 THEN u - 65536 ELSE u

\* C25: legacy device_temperature returns 0.003906 times the signed 16-bit
\* little-endian ADC value of bytes 1..2 of the response (3906 * adc in
\* units of 10^-6; 999936 for adc = 256), and returns a value only when the
\* first byte of the response is the expected echo 0x08.
C25_LegacyTemperature ==
    LegacyTemperatureRead =>
        IF last.o.resp[1] = 8 /\ Len(last.o.resp) = 3
        THEN /\ last.exc = "none"
             /\ last.ret = <<3906 * AdcOf(last.o.resp)>>
             /\ AdcOf(last.o.resp) = 256 => last.ret = <<999936>>
        ELSE last.exc # "none" /\ last.ret = <<>>

\* C25 witness: device_temperature has returned the temperature of the most
\* negative ADC value, -32768.
C25_NegativeTemperatureReturned ==
    /\ LegacyTemperatureRead /\ last.exc = "none"
    /\ last.o.resp = <<8, 0, 128>>
    /\ last.ret = <<-127991808>>


\* the last call was a framed _request_spectrum that wrote its command and
\* none of whose reads failed
FramedRequestRead ==
    /\ variant = "STS" /\ last.op = "_request_spectrum"
    /\ last.o.w /\ last.o.failAt = 0 /\ last.exc # "AttributeError"

FramedReads == SelectSeq(last.ev, IsRead)

\* C26: a framed spectrum request issues exactly 33 reads of 64 bytes, 2112
\* bytes, which is the size of the decoded layout: a 44-byte header, 1024
\* unsigned 16-bit samples and a 20-byte trailer; it returns exactly the
\* 1024 samples at byte offsets 44..2091 of the joined buffer, in order, and
\* nothing of the header or the trailer.
C26_FramedSpectrumLayout ==
    FramedRequestRead =>
        /\ Len(FramedReads) = 33
        /\ \A j \in 1..Len(FramedReads) : FramedReads[j] = Rd(EP1_in, 64)
        /\ SumN(FramedReads) = 2112
        /\ calcsize(STS_spectrum_format) = 2112
        /\ STS_header + 2 * STS_pixels + STS_trailer = 2112
        /\ IF last.o.short THEN last.exc = "struct.error" /\ last.ret = <<>>
           ELSE /\ last.exc = "none"
                /\ Len(last.ret) = STS_pixels
                /\ \A k \in 0..(STS_pixels - 1) :
                        last.ret[k + 1] =
                            DevStsSpectrumByte(last.o.pat, STS_header + 2 * k + 1)
                            + 256 * DevStsSpectrumByte(last.o.pat, STS_header + 2 * k + 2)
                /\ STS_header + 2 * (STS_pixels - 1) + 1 = 2091

\* C26 witness: a framed request read all 33 chunks and returned 1024
\* samples, the last of them from bytes 2090..2091.
C26_FramedSamplesReturned ==
    /\ FramedRequestRead /\ last.exc = "none" /\ last.o.pat = 40000
    /\ Len(last.ret) = 1024
    /\ last.ret[1024] = DevStsSpectrumByte(40000, 2091)
                         + 256 * DevStsSpectrumByte(40000, 2092)


\* the statements of legacy construction outside the two retry loops
UnguardedSteps ==
    {"initialize", "integration_time", "wavelength", "nonlinearity",
     "saturation", "serial"}

\* C27: the speed-detection step retries only a status query that failed
\* with a transport (USB) error; any other failure of the query aborts
\* construction at that attempt with that failure.  The first-acquisition
\* step retries whatever the request raised.  A failure of any statement
\* outside the two loops aborts construction with that failure, without
\* another attempt.
C27_RetryScope ==
    [][variant = "USB2000" =>
        /\ (pc = "speed" /\ last'.exc = "USBError" /\ i + 1 < 10) =>
                (pc' = "speed" /\ exc' = "none")
        /\ (pc = "speed" /\ last'.exc \notin {"none", "USBError"}) =>
                (pc' = "failed" /\ exc' = last'.exc
                    /\ sent'["query_status"] = i + 1)
        /\ (pc = "spectrum" /\ last'.exc # "none" /\ i + 1 < 10) =>
                pc' = "spectrum"
        /\ (pc \in UnguardedSteps /\ last'.exc # "none") =>
                (pc' = "failed" /\ exc' = last'.exc)
        /\ (pc \in UnguardedSteps /\ pc' # "failed") =>
                (pc' = USB2000_next(pc) /\ last'.exc = "none")]_vars

\* C27 witness: the first status query of speed detection read a response
\* that is no status record, and construction has failed with struct.error
\* after that one query.
C27_UndecodableStatusAborts ==
    /\ variant = "USB2000" /\ last.op = "_query_status"
    /\ last.exc = "struct.error"
    /\ Raised /\ exc = "struct.error"
    /\ sent["query_status"] = 1


Draining == variant = "STS" /\ pc = "drain"

\* C28: the buffer-drain step of framed construction issues only reads of
\* the in-endpoint, keeps nothing of what it reads, and ends exactly at the
\* first read that fails: a read that returns data is followed by another
\* read, however many came before, so construction reaches its first
\* command write only after a drain read has failed, and never if every
\* read succeeds.
C28_DrainUntilReadFails ==
    [][Draining =>
        /\ last'.op = "_initialize"
        /\ last'.ev = <<Rd(EP1_in, EP1_in_size)>>
        /\ last'.ret = <<>>
        /\ written' = written /\ written \subseteq {"find", "set_configuration"}
        /\ sent' = NoneSent
        /\ <<attrs', it', scan_averages', wl', nl', sl', Serial'>>
                = <<attrs, it, scan_averages, wl, nl, sl, Serial>>
        /\ last'.o.r => pc' = "drain"
        /\ ~last'.o.r => pc' = "hw"]_vars

\* C28 witness: more drain reads than the model counts have returned data
\* and construction is still draining, with no command written.
C28_StillDraining ==
    /\ Draining /\ i = MaxDrain
    /\ last.op = "_initialize" /\ last.o.r
    /\ written = {"find", "set_configuration"}

====
